---- MODULE Spec2Model ----
(***************************************************************************)
(* The DBTC ownership/lineage ledger of the barcode server.                *)
(*                                                                         *)
(* The ledger is the SQLite database written by dbtc-database.js           *)
(* (src/unnamed/part_001) and driven by the express routes of              *)
(* src/server/dbtc-router.js.  Every db.transaction / db.run call commits  *)
(* on its own, so one step of the model is one committed database          *)
(* statement group.  A route handler is a chain of such steps.  Node runs  *)
(* the synchronous part of a handler to completion, so while a handler is  *)
(* between two of its commits (variable running) no other handler of the   *)
(* server takes a step; the states in between are the ones another reader  *)
(* of the database file (the nag jobs run as their own processes) can see. *)
(* A handler gives control back only at an await: give-a-frag awaits       *)
(* lookupUser between its validation and its writes (variable inflight).   *)
(***************************************************************************)
EXTENDS Integers, Sequences, FiniteSets, TLC

\* ---------------------------------------------------------------- bounds
MaxUser == 2
MaxRows == 5
MaxEdits == 1
MaxAvail == 3
MaxInflight == 2
MaxFans == 2
MaxBatch == 3
MaxImportId == 3
MaxShares == 2
MaxShareId == 2
MaxTime == 2
\* The page size of the collection (12 rows in the server), scaled to the
\* number of mothers MaxRows admits.
ITEMS_PER_PAGE == 1

Users == 1..MaxUser

\* The frag ids a request can name; an id not inserted yet names no frag.
FragIds == 1..(MaxRows - 1)

\* The rows of the rules table the routes distinguish.
Rules == {"dbtc", "private"}

\* The timestamp column: ISO UTC strings, which sort as the instants they
\* name; the model numbers the instants 1..MaxTime.
FirstTime == 1

\* A name and a row of the types table a form can carry.
FirstName == "acro"
FirstType == "SPS"

\* SQL NULL in an integer column (fragOf) and in a text column (status).
NULL == 0
NULLSTATUS == "null"

\* What parseInt delivers for the :fragsAvailable parameter of the PUT.
PutInputs == (0 - 1)..1

\* The forum user ids an import log can name; 0 stands for a missing or
\* malformed id.
ImportIds == 1..MaxImportId

\* Every user id that can own a frag.
Holders == Users \cup ImportIds

\* isGoodId of ./utility: the id is a usable forum user id.
isGoodId(id) == id \in ImportIds

\* The entries of an import log that pass the validation of POST /import.
\* date, from and to are TRUE when the field is present (truthy).
GoodTransactions ==
    {[date |-> TRUE, from |-> TRUE, fromId |-> f, type |-> t, to |-> TRUE, toId |-> x] :
        f \in ImportIds, t \in {"gave", "trans"}, x \in ImportIds}
    \cup {[date |-> TRUE, from |-> TRUE, fromId |-> f, type |-> "rip", to |-> FALSE, toId |-> 0] :
        f \in ImportIds}

\* Entries with one thing wrong each: no date, no from name, a bad fromId,
\* no to name, a bad toId, an unknown type.
BadTransactions ==
    {[date |-> FALSE, from |-> TRUE, fromId |-> 1, type |-> "gave", to |-> TRUE, toId |-> 2],
     [date |-> TRUE, from |-> FALSE, fromId |-> 1, type |-> "rip", to |-> FALSE, toId |-> 0],
     [date |-> TRUE, from |-> TRUE, fromId |-> 0, type |-> "rip", to |-> FALSE, toId |-> 0],
     [date |-> TRUE, from |-> TRUE, fromId |-> 1, type |-> "gave", to |-> FALSE, toId |-> 2],
     [date |-> TRUE, from |-> TRUE, fromId |-> 1, type |-> "trans", to |-> TRUE, toId |-> 0],
     [date |-> TRUE, from |-> TRUE, fromId |-> 1, type |-> "sold", to |-> TRUE, toId |-> 2]}

\* What JSON.parse(body.transactions) can deliver: logs of n entries.
Transactions(n) == [1..n -> GoodTransactions \cup BadTransactions]

VARIABLES
    mothers,    \* table mothers: sequence indexed by motherId
    frags,      \* table frags: sequence indexed by fragId
    journals,   \* table journals: sequence indexed by journalId
    fans,       \* table fans: set of <<motherId, userId>>
    shares,     \* table shares: sequence of rows in insertion order
    inflight,   \* give-a-frag requests waiting in "await lookupUser"
    running,    \* the handler now between two of its commits
    reply,      \* the response to the last request, once it is sent
    hist        \* history of counter writes (not program state)

vars == <<mothers, frags, journals, fans, shares, inflight, running, reply, hist>>

Max(a, b) == IF a >= b THEN a ELSE b

\* ------------------------------------------------------- database module

\* INSERT_FRAG with the fragOf column left out of the statement.
INSERT_FRAG_NoParent(fs, b) ==
    Append(fs, [motherId |-> b.motherId,
                ownerId |-> b.ownerId,
                fragOf |-> NULL,
                picture |-> NULLSTATUS,
                notes |-> NULLSTATUS,
                fragsAvailable |-> b.fragsAvailable,
                isAlive |-> 1,
                status |-> NULLSTATUS])

\* INSERT INTO frags (...) VALUES (..., $fragsAvailable, 1): the bound
\* counter is stored as given, the row is alive, status is left NULL.
\* The inserting requests carry no picture and no notes, so both columns
\* get the NULL of the NULLABLE_VALUES defaults.
INSERT_FRAG(fs, b) ==
    Append(fs, [motherId |-> b.motherId,
                ownerId |-> b.ownerId,
                fragOf |-> b.fragOf,
                picture |-> NULLSTATUS,
                notes |-> NULLSTATUS,
                fragsAvailable |-> b.fragsAvailable,
                isAlive |-> 1,
                status |-> NULLSTATUS])

\* INSERT_MOTHER: of the columns it binds, the model keeps the ones a route
\* or a query reads back: timestamp, name, type and rules.
INSERT_MOTHER(ms, b) ==
    Append(ms, [timestamp |-> b.timestamp,
                name |-> b.name,
                type |-> b.type,
                rules |-> b.rules])

\* insertItem: one transaction, the mother and then its root frag.
insertItem(ms, fs, values) ==
    LET motherId == Len(ms) + 1
        fragBindings == [motherId |-> motherId,
                         ownerId |-> values.ownerId,
                         fragOf |-> NULL,
                         fragsAvailable |-> values.fragsAvailable]
    IN  [mothers |-> INSERT_MOTHER(ms, values),
         frags |-> INSERT_FRAG(fs, fragBindings),
         motherId |-> motherId,
         fragId |-> Len(fs) + 1]

\* DECREMENT_FRAGS_AVAILABLE with "fragId = $fragId" left out of the WHERE.
DECREMENT_FRAGS_AVAILABLE_AnyFrag(fs, fragId, ownerId) ==
    [i \in DOMAIN fs |->
        IF fs[i].ownerId = ownerId
        THEN [fs[i] EXCEPT !.fragsAvailable = Max(fs[i].fragsAvailable - 1, 0)]
        ELSE fs[i]]

DECREMENT_FRAGS_AVAILABLE(fs, fragId, ownerId) ==
    [i \in DOMAIN fs |->
        IF i = fragId /\ fs[i].ownerId = ownerId
        THEN [fs[i] EXCEPT !.fragsAvailable = Max(fs[i].fragsAvailable - 1, 0)]
        ELSE fs[i]]

\* The rows SELECT_FRAGS_AVAILABLE returns (at most one).
SELECT_FRAGS_AVAILABLE(fs, fragId, ownerId) ==
    {i \in DOMAIN fs : i = fragId /\ fs[i].ownerId = ownerId}

\* UPDATE_ALIVE with "fragsAvailable = 0" left out of the SET.
UPDATE_ALIVE_KeepsCounter(fs, fragId, ownerId, status) ==
    [i \in DOMAIN fs |->
        IF i = fragId /\ fs[i].ownerId = ownerId
        THEN [fs[i] EXCEPT !.isAlive = 0, !.status = status]
        ELSE fs[i]]

\* UPDATE_ALIVE with "fragId = $fragId" left out of the WHERE.
UPDATE_ALIVE_AllOfOwner(fs, fragId, ownerId, status) ==
    [i \in DOMAIN fs |->
        IF fs[i].ownerId = ownerId
        THEN [fs[i] EXCEPT !.isAlive = 0, !.fragsAvailable = 0, !.status = status]
        ELSE fs[i]]

\* UPDATE_ALIVE with "OR fragOf = $fragId" added to the WHERE.
UPDATE_ALIVE_AndChildren(fs, fragId, ownerId, status) ==
    [i \in DOMAIN fs |->
        IF (i = fragId /\ fs[i].ownerId = ownerId) \/ fs[i].fragOf = fragId
        THEN [fs[i] EXCEPT !.isAlive = 0, !.fragsAvailable = 0, !.status = status]
        ELSE fs[i]]

UPDATE_ALIVE(fs, fragId, ownerId, status) ==
    [i \in DOMAIN fs |->
        IF i = fragId /\ fs[i].ownerId = ownerId
        THEN [fs[i] EXCEPT !.isAlive = 0, !.fragsAvailable = 0, !.status = status]
        ELSE fs[i]]

\* markAsDead that always binds status: null.
markAsDead_IgnoresStatus(fs, ownerId, fragId, status) ==
    UPDATE_ALIVE(fs, fragId, ownerId, NULLSTATUS)

markAsDead(fs, ownerId, fragId, status) ==
    UPDATE_ALIVE(fs, fragId, ownerId, status)

\* UPDATE_FRAGS_AVAILABLE with "fragsAvailable = $fragsAvailable", no MAX.
UPDATE_FRAGS_AVAILABLE_NoMax(fs, fragId, ownerId, fragsAvailable) ==
    [i \in DOMAIN fs |->
        IF i = fragId /\ fs[i].ownerId = ownerId
        THEN [fs[i] EXCEPT !.fragsAvailable = fragsAvailable]
        ELSE fs[i]]

UPDATE_FRAGS_AVAILABLE(fs, fragId, ownerId, fragsAvailable) ==
    [i \in DOMAIN fs |->
        IF i = fragId /\ fs[i].ownerId = ownerId
        THEN [fs[i] EXCEPT !.fragsAvailable = Max(fragsAvailable, 0)]
        ELSE fs[i]]

\* updateFragsAvailable: one transaction, the update and the read of the
\* stored counter.  When the read finds no row (no frag fragId of ownerId)
\* destructuring its first element throws, and nothing was updated.
updateFragsAvailable(fs, ownerId, fragId, fragsAvailable) ==
    LET updated == UPDATE_FRAGS_AVAILABLE(fs, fragId, ownerId, fragsAvailable)
        rows == SELECT_FRAGS_AVAILABLE(updated, fragId, ownerId)
    IN  IF rows = {}
        THEN [ok |-> FALSE, frags |-> fs, result |-> 0]
        ELSE [ok |-> TRUE, frags |-> updated, result |-> updated[fragId].fragsAvailable]

\* giveAFrag whose transfer also hands the source over to values.ownerId.
giveAFrag_HandsOver(fs, userId, values) ==
    LET inserted == INSERT_FRAG(fs, [values EXCEPT !.fragsAvailable = 0])
        dec == DECREMENT_FRAGS_AVAILABLE(inserted, values.fragOf, userId)
        dead == UPDATE_ALIVE(inserted, values.fragOf, userId, "transferred")
    IN  IF values.transfer
        THEN [ok |-> TRUE,
              frags |-> [dead EXCEPT ![values.fragOf].ownerId = values.ownerId],
              fragsAvailable |-> 0,
              fragId |-> Len(fs) + 1]
        ELSE IF SELECT_FRAGS_AVAILABLE(dec, values.fragOf, userId) = {}
        THEN [ok |-> FALSE, frags |-> fs, fragsAvailable |-> 0, fragId |-> 0]
        ELSE [ok |-> TRUE,
              frags |-> dec,
              fragsAvailable |-> dec[values.fragOf].fragsAvailable,
              fragId |-> Len(fs) + 1]

\* giveAFrag with "fragsAvailable: 0" spread before values, not after.
giveAFrag_PassesCounter(fs, userId, values) ==
    LET inserted == INSERT_FRAG(fs, values)
        fragId == Len(fs) + 1
        dec == DECREMENT_FRAGS_AVAILABLE(inserted, values.fragOf, userId)
        rows == SELECT_FRAGS_AVAILABLE(dec, values.fragOf, userId)
    IN  IF values.transfer
        THEN [ok |-> TRUE,
              frags |-> UPDATE_ALIVE(inserted, values.fragOf, userId, "transferred"),
              fragsAvailable |-> 0,
              fragId |-> fragId]
        ELSE IF rows = {}
        THEN [ok |-> FALSE, frags |-> fs, fragsAvailable |-> 0, fragId |-> 0]
        ELSE [ok |-> TRUE,
              frags |-> dec,
              fragsAvailable |-> dec[values.fragOf].fragsAvailable,
              fragId |-> fragId]

\* giveAFrag without the run of DECREMENT_FRAGS_AVAILABLE.
giveAFrag_NoDecrement(fs, userId, values) ==
    LET fragBindings == [values EXCEPT !.fragsAvailable = 0]
        inserted == INSERT_FRAG(fs, fragBindings)
        fragId == Len(fs) + 1
        rows == SELECT_FRAGS_AVAILABLE(inserted, values.fragOf, userId)
    IN  IF values.transfer
        THEN [ok |-> TRUE,
              frags |-> UPDATE_ALIVE(inserted, values.fragOf, userId, "transferred"),
              fragsAvailable |-> 0,
              fragId |-> fragId]
        ELSE IF rows = {}
        THEN [ok |-> FALSE, frags |-> fs, fragsAvailable |-> 0, fragId |-> 0]
        ELSE [ok |-> TRUE,
              frags |-> inserted,
              fragsAvailable |-> inserted[values.fragOf].fragsAvailable,
              fragId |-> fragId]

\* giveAFrag: one transaction.  The child is inserted with the motherId,
\* ownerId and fragOf of values and with counter 0, whatever fragsAvailable
\* values carries; then the source is marked transferred, or decremented
\* and read back.  Reading back no row (the giver does not own the source)
\* throws inside the callback of db.transaction, which is taken to roll the
\* transaction back.
giveAFrag(fs, userId, values) ==
    LET fragBindings == [values EXCEPT !.fragsAvailable = 0]
        inserted == INSERT_FRAG(fs, fragBindings)
        fragId == Len(fs) + 1
        dec == DECREMENT_FRAGS_AVAILABLE(inserted, values.fragOf, userId)
        rows == SELECT_FRAGS_AVAILABLE(dec, values.fragOf, userId)
    IN  IF values.transfer
        THEN [ok |-> TRUE,
              frags |-> UPDATE_ALIVE(inserted, values.fragOf, userId, "transferred"),
              fragsAvailable |-> 0,
              fragId |-> fragId]
        ELSE IF rows = {}
        THEN [ok |-> FALSE, frags |-> fs, fragsAvailable |-> 0, fragId |-> 0]
        ELSE [ok |-> TRUE,
              frags |-> dec,
              fragsAvailable |-> dec[values.fragOf].fragsAvailable,
              fragId |-> fragId]

\* SELECT_VALID_FRAG without the isAlive condition: dead frags pass.
validateFrag_DeadOrAlive(ms, fs, ownerId, fragId, isAlive, fragsAvailable) ==
    /\ fragId \in DOMAIN fs
    /\ fs[fragId].motherId \in DOMAIN ms
    /\ fs[fragId].fragsAvailable > fragsAvailable
    /\ fs[fragId].ownerId = ownerId

\* validateFrag: the one row of SELECT_VALID_FRAG, or none.  The join with
\* mothers needs the frag's mother to exist.
validateFrag(ms, fs, ownerId, fragId, isAlive, fragsAvailable) ==
    /\ fragId \in DOMAIN fs
    /\ fs[fragId].motherId \in DOMAIN ms
    /\ fs[fragId].isAlive = (IF isAlive THEN 1 ELSE 0)
    /\ fs[fragId].fragsAvailable > fragsAvailable
    /\ fs[fragId].ownerId = ownerId

\* INSERT_JOURNAL preceded by an UPDATE that retypes the earlier rows of the
\* frag.
addJournal_Supersede(js, fragId, entryType) ==
    Append([j \in DOMAIN js |->
               IF js[j].fragId = fragId
               THEN [js[j] EXCEPT !.entryType = "superseded"]
               ELSE js[j]],
           [fragId |-> fragId, entryType |-> entryType])

\* INSERT_JOURNAL without the entryType column.
addJournal_NoType(js, fragId, entryType) ==
    Append(js, [fragId |-> fragId, entryType |-> NULLSTATUS])

\* addJournal: INSERT_JOURNAL; the row read back is the one appended.
addJournal(js, fragId, entryType) ==
    Append(js, [fragId |-> fragId, entryType |-> entryType])

\* The journal rows that record a counter edit or a death.
Edits(js) == {j \in DOMAIN js : js[j].entryType \in {"fragged", "rip"}}

addFan(fn, userId, motherId) == fn \cup {<<motherId, userId>>}

removeFan(fn, userId, motherId) == fn \ {<<motherId, userId>>}

\* ------------------------------------------------------------- history

\* hist.base[f]: the counter of frag f when it was inserted or last set by
\* updateFragsAvailable; hist.splits[f]: the splits of f committed since.
\* hist.clean[m]: since mother m was inserted, the only writes to the frags
\* of m were splits from its root.
HistInsert(h, fragsAvailable) ==
    [h EXCEPT !.base = Append(@, fragsAvailable), !.splits = Append(@, 0)]

HistSet(h, fs, fragId, fragsAvailable) ==
    [h EXCEPT !.base[fragId] = fragsAvailable,
              !.splits[fragId] = 0,
              !.clean[fs[fragId].motherId] = FALSE]

HistDead(h, fs, fragId) ==
    [h EXCEPT !.clean[fs[fragId].motherId] = FALSE]

\* A split of source fragOf that inserts the child under values.motherId.
HistSplit(h, fs, values) ==
    LET src == fs[values.fragOf]
        fromRoot == src.fragOf = NULL /\ src.motherId = values.motherId
    IN  [HistInsert(h, 0) EXCEPT
            !.splits[values.fragOf] = @ + 1,
            !.clean = [m \in DOMAIN @ |->
                          IF m \in {src.motherId, values.motherId} /\ ~fromRoot
                          THEN FALSE ELSE @[m]]]

\* A transfer of source fragOf.
HistTransfer(h, fs, values) ==
    [HistDead(HistInsert(h, 0), fs, values.fragOf)
        EXCEPT !.clean[values.motherId] = FALSE]

\* ---------------------------------------------------------------- state

Idle == [pc |-> "idle", user |-> 0, fragId |-> 0, fragOf |-> 0,
         recipient |-> 0, motherId |-> 0, transfer |-> FALSE, fragsAvailable |-> 0]

NoReply == [code |-> "none"]

Free == [pc |-> "free", user |-> 0, fragOf |-> 0, fragMotherId |-> 0, seen |-> 0]

Init ==
    /\ mothers = <<>>
    /\ frags = <<>>
    /\ journals = <<>>
    /\ fans = {}
    /\ shares = <<>>
    /\ inflight = [r \in 1..MaxInflight |-> Free]
    /\ running = Idle
    /\ reply = NoReply
    /\ hist = [base |-> <<>>, splits |-> <<>>, clean |-> <<>>]

\* The requests now in "await lookupUser".
Waiting == {r \in 1..MaxInflight : inflight[r].pc = "lookup"}

\* ------------------------------------------------- POST /add-new-item

\* db.insertItem(params) with params = {...body, ownerId: user.id, ...}:
\* fragsAvailable is parseInt of the form field and is not checked;
\* timestamp, name and type are the body's (fixDates puts the clock's
\* reading where the body has no timestamp).
AddNewItem_InsertItem(timestamp, name, type, fragsAvailable) ==
    \E user \in Users, rules \in Rules :
        /\ running.pc = "idle"
        /\ Len(mothers) + Len(frags) + Cardinality(Waiting) + 2 <= MaxRows
        /\ LET r == insertItem(mothers, frags,
                       [ownerId |-> user, rules |-> rules,
                        timestamp |-> timestamp, name |-> name, type |-> type,
                        fragsAvailable |-> fragsAvailable])
           IN  /\ mothers' = r.mothers
               /\ frags' = r.frags
               /\ running' = [Idle EXCEPT !.pc = "addItemJournal",
                                          !.user = user, !.fragId = r.fragId]
               /\ hist' = [HistInsert(hist, fragsAvailable)
                              EXCEPT !.clean = Append(@, TRUE)]
        /\ reply' = NoReply
        /\ UNCHANGED <<shares, journals, fans, inflight>>

\* db.addJournal({fragId, entryType: 'acquired', ...}); res.json.
AddNewItem_Journal ==
    /\ running.pc = "addItemJournal"
    /\ journals' = addJournal(journals, running.fragId, "acquired")
    /\ running' = Idle
    /\ reply' = [code |-> "ok"]
    /\ UNCHANGED <<shares, mothers, frags, fans, inflight, hist>>

\* ------------------------------- PUT /frag/:fragId/available/:fragsAvailable

\* validateFrag fails, or the frag is private: INVALID_FRAG; the parsed
\* value is negative: INVALID_INCREMENT.  Nothing is written.
PutAvailable_Reject(user, fragId) ==
    \E value \in PutInputs :
        /\ running.pc = "idle"
        /\ IF ~validateFrag(mothers, frags, user, fragId, TRUE, 0 - 1)
           THEN reply' = [code |-> "INVALID_FRAG"]
           ELSE IF mothers[frags[fragId].motherId].rules = "private"
           THEN reply' = [code |-> "INVALID_FRAG"]
           ELSE /\ value < 0
                /\ reply' = [code |-> "INVALID_INCREMENT"]
        /\ UNCHANGED <<shares, mothers, frags, journals, fans, inflight, running, hist>>

\* db.updateFragsAvailable(user.id, fragId, value): the update and the
\* read of the stored value, one transaction.
PutAvailable_Update(user, fragId) ==
    \E value \in PutInputs :
        /\ running.pc = "idle"
        /\ Cardinality(Edits(journals)) < MaxEdits
        /\ validateFrag(mothers, frags, user, fragId, TRUE, 0 - 1)
        /\ mothers[frags[fragId].motherId].rules # "private"
        /\ value >= 0
        /\ frags' = updateFragsAvailable(frags, user, fragId, value).frags
        /\ running' = [Idle EXCEPT !.pc = "availableJournal",
                                   !.user = user, !.fragId = fragId,
                                   !.fragsAvailable =
                                       updateFragsAvailable(frags, user, fragId, value).result]
        /\ hist' = HistSet(hist, frags, fragId, frags'[fragId].fragsAvailable)
        /\ reply' = NoReply
        /\ UNCHANGED <<shares, mothers, journals, fans, inflight>>

\* db.addJournal({fragId, entryType: 'fragged', ...}); res.json.
PutAvailable_Journal ==
    /\ running.pc = "availableJournal"
    /\ journals' = addJournal(journals, running.fragId, "fragged")
    /\ running' = Idle
    /\ reply' = [code |-> "ok"]
    /\ UNCHANGED <<shares, mothers, frags, fans, inflight, hist>>

\* ---------------------------------------------- POST /frag/:fragId/rip

Rip_Reject(user, fragId) ==
    /\ running.pc = "idle"
    /\ ~validateFrag(mothers, frags, user, fragId, TRUE, 0 - 1)
    /\ reply' = [code |-> "INVALID_FRAG"]
    /\ UNCHANGED <<shares, mothers, frags, journals, fans, inflight, running, hist>>

\* db.markAsDead(user.id, fragId): status is omitted, so NULL is stored.
Rip_MarkAsDead(user, fragId) ==
    /\ running.pc = "idle"
    /\ Cardinality(Edits(journals)) < MaxEdits
    /\ validateFrag(mothers, frags, user, fragId, TRUE, 0 - 1)
    /\ frags' = markAsDead(frags, user, fragId, NULLSTATUS)
    /\ running' = [Idle EXCEPT !.pc = "ripJournal",
                               !.user = user, !.fragId = fragId]
    /\ hist' = HistDead(hist, frags, fragId)
    /\ reply' = NoReply
    /\ UNCHANGED <<shares, mothers, journals, fans, inflight>>

\* db.addJournal({fragId, entryType: 'rip', ...}); res.json.
Rip_Journal ==
    /\ running.pc = "ripJournal"
    /\ journals' = addJournal(journals, running.fragId, "rip")
    /\ running' = Idle
    /\ reply' = [code |-> "ok"]
    /\ UNCHANGED <<shares, mothers, frags, fans, inflight, hist>>

\* ------------------------------------------------- POST /give-a-frag

\* What "await lookupUser(ownerId)" can resolve to: nothing when the forum
\* does not know the id, else the user, allowed or not.
LookupUser(ownerId) ==
    {[found |-> TRUE, id |-> ownerId, allowed |-> a] : a \in BOOLEAN}
        \cup {[found |-> FALSE, id |-> 0, allowed |-> FALSE]}

\* validateFrag(user.id, fragOf, true, -1) finds no row, or the frag is
\* private: INVALID_FRAG.
PostGiveAFrag_Reject(user, fragOf) ==
    /\ running.pc = "idle"
    /\ \/ ~validateFrag(mothers, frags, user, fragOf, TRUE, 0 - 1)
       \/ /\ validateFrag(mothers, frags, user, fragOf, TRUE, 0 - 1)
          /\ mothers[frags[fragOf].motherId].rules = "private"
    /\ reply' = [code |-> "INVALID_FRAG"]
    /\ UNCHANGED <<shares, mothers, frags, journals, fans, inflight, running, hist>>

\* The frag is valid and not private: the handler awaits lookupUser,
\* holding user, body.fragOf and frag, the row validateFrag returned.
PostGiveAFrag_Validate(user, fragOf) ==
    \E r \in 1..MaxInflight :
        /\ running.pc = "idle"
        /\ Len(mothers) + Len(frags) + Cardinality(Waiting) < MaxRows
        /\ validateFrag(mothers, frags, user, fragOf, TRUE, 0 - 1)
        /\ mothers[frags[fragOf].motherId].rules # "private"
        /\ inflight[r].pc = "free"
        /\ \A q \in 1..(r - 1) : inflight[q].pc # "free"
        /\ inflight' = [inflight EXCEPT ![r] =
              [pc |-> "lookup", user |-> user, fragOf |-> fragOf,
               fragMotherId |-> frags[fragOf].motherId,
               seen |-> frags[fragOf].fragsAvailable]]
        /\ reply' = NoReply
        /\ UNCHANGED <<shares, mothers, frags, journals, fans, running, hist>>

\* The recipient checks without "recipient.id === user.id".
PostGiveAFrag_BadRecipient_GiverAllowed(r, ownerId, recipient) ==
    /\ running.pc = "idle"
    /\ inflight[r].pc = "lookup"
    /\ ~(recipient.found /\ recipient.allowed)
    /\ inflight' = [inflight EXCEPT ![r] = Free]
    /\ reply' = [code |-> "INVALID_RECIPIENT"]
    /\ UNCHANGED <<shares, mothers, frags, journals, fans, running, hist>>

\* The recipient is not found, not allowed, or the giver: INVALID_RECIPIENT.
\* body.ownerId is first read here, after the await.  The request in slot r
\* resumes with lookupUser(ownerId) resolved to recipient.
PostGiveAFrag_BadRecipient(r, ownerId, recipient) ==
    /\ running.pc = "idle"
    /\ inflight[r].pc = "lookup"
    /\ \/ ~(recipient.found /\ recipient.allowed)
       \/ recipient.id = inflight[r].user
    /\ inflight' = [inflight EXCEPT ![r] = Free]
    /\ reply' = [code |-> "INVALID_RECIPIENT"]
    /\ UNCHANGED <<shares, mothers, frags, journals, fans, running, hist>>

\* db.giveAFrag(user.id, params) with params = the body: fragOf was
\* validated before the await; ownerId, transfer, motherId and
\* fragsAvailable are whatever the client sent, and are first read here.
PostGiveAFrag_Give(r, ownerId, recipient) ==
    \E transfer \in BOOLEAN, motherId \in DOMAIN mothers,
       fragsAvailable \in {0, MaxAvail} :
        /\ running.pc = "idle"
        /\ inflight[r].pc = "lookup"
        /\ recipient.found /\ recipient.allowed
        /\ recipient.id # inflight[r].user
        /\ LET req == inflight[r]
               params == [fragOf |-> req.fragOf, ownerId |-> ownerId,
                          transfer |-> transfer, motherId |-> motherId,
                          fragsAvailable |-> fragsAvailable]
               g == giveAFrag(frags, req.user, params)
           IN  IF g.ok
               THEN /\ frags' = g.frags
                    /\ running' = [pc |-> "giveJournalRecipient",
                                   user |-> req.user, fragId |-> g.fragId,
                                   fragOf |-> req.fragOf,
                                   recipient |-> recipient.id,
                                   motherId |-> req.fragMotherId,
                                   transfer |-> transfer,
                                   fragsAvailable |-> g.fragsAvailable]
                    /\ hist' = IF transfer
                               THEN HistTransfer(hist, frags, params)
                               ELSE HistSplit(hist, frags, params)
                    /\ reply' = NoReply
               ELSE /\ reply' = [code |-> "error"]
                    /\ UNCHANGED <<frags, running, hist>>
        /\ inflight' = [inflight EXCEPT ![r] = Free]
        /\ UNCHANGED <<shares, mothers, journals, fans>>

\* db.addJournal({fragId: newFragId, entryType: 'acquired', ...}).
PostGiveAFrag_JournalRecipient ==
    /\ running.pc = "giveJournalRecipient"
    /\ journals' = addJournal(journals, running.fragId, "acquired")
    /\ running' = [running EXCEPT !.pc = "giveJournalGiver"]
    /\ UNCHANGED <<shares, mothers, frags, fans, inflight, reply, hist>>

\* db.addJournal({fragId: fragOf, entryType: 'gave', ...}).
PostGiveAFrag_JournalGiver ==
    /\ running.pc = "giveJournalGiver"
    /\ journals' = addJournal(journals, running.fragOf, "gave")
    /\ running' = [running EXCEPT !.pc = "giveRemoveFan"]
    /\ UNCHANGED <<shares, mothers, frags, fans, inflight, reply, hist>>

\* db.removeFan(recipient.id, frag.motherId); res.json({fragsAvailable, journal}).
PostGiveAFrag_RemoveFan ==
    /\ running.pc = "giveRemoveFan"
    /\ fans' = removeFan(fans, running.recipient, running.motherId)
    /\ running' = Idle
    /\ reply' = [code |-> "ok"]
    /\ UNCHANGED <<shares, mothers, frags, journals, inflight, hist>>

\* ------------------------------------------- PUT, DELETE /fan/:motherId

PutFan ==
    \E user \in Users, motherId \in DOMAIN mothers :
        /\ running.pc = "idle"
        /\ Cardinality(addFan(fans, user, motherId)) <= MaxFans
        /\ fans' = addFan(fans, user, motherId)
        /\ reply' = [code |-> "ok"]
        /\ UNCHANGED <<shares, mothers, frags, journals, inflight, running, hist>>

DeleteFan ==
    \E user \in Users, motherId \in DOMAIN mothers :
        /\ running.pc = "idle"
        /\ fans' = removeFan(fans, user, motherId)
        /\ reply' = [code |-> "ok"]
        /\ UNCHANGED <<shares, mothers, frags, journals, inflight, running, hist>>

\* -------------------------------------------- a journal write that throws

\* No route wraps its calls of the database module in a transaction of its
\* own and none catches: when db.addJournal throws (the statement fails in
\* SQLite), the exception leaves the handler, express answers with an
\* error, and the commits the handler made before stay.
AddNewItem_JournalThrows ==
    /\ running.pc = "addItemJournal"
    /\ running' = Idle
    /\ reply' = [code |-> "error"]
    /\ UNCHANGED <<mothers, frags, journals, fans, shares, inflight, hist>>

Rip_JournalThrows ==
    /\ running.pc = "ripJournal"
    /\ running' = Idle
    /\ reply' = [code |-> "error"]
    /\ UNCHANGED <<mothers, frags, journals, fans, shares, inflight, hist>>

\* Either of the two addJournal calls of give-a-frag.
PostGiveAFrag_JournalThrows ==
    /\ running.pc \in {"giveJournalRecipient", "giveJournalGiver"}
    /\ running' = Idle
    /\ reply' = [code |-> "error"]
    /\ UNCHANGED <<mothers, frags, journals, fans, shares, inflight, hist>>

Next ==
    \/ \E fragsAvailable \in (0 - 1)..MaxAvail :
          AddNewItem_InsertItem(FirstTime, FirstName, FirstType, fragsAvailable)
    \/ AddNewItem_Journal
    \/ \E user \in Users, fragId \in FragIds :
          PutAvailable_Reject(user, fragId)
    \/ \E user \in Users, fragId \in FragIds :
          PutAvailable_Update(user, fragId)
    \/ PutAvailable_Journal
    \/ \E user \in Users, fragId \in FragIds :
          Rip_Reject(user, fragId)
    \/ \E user \in Users, fragId \in FragIds :
          Rip_MarkAsDead(user, fragId)
    \/ Rip_Journal
    \/ \E user \in Users, fragOf \in FragIds :
          PostGiveAFrag_Reject(user, fragOf)
    \/ \E user \in Users, fragOf \in FragIds :
          PostGiveAFrag_Validate(user, fragOf)
    \/ \E r \in 1..MaxInflight, ownerId \in Users :
          \E recipient \in LookupUser(ownerId) :
              PostGiveAFrag_BadRecipient(r, ownerId, recipient)
    \/ \E r \in 1..MaxInflight, ownerId \in Users :
          \E recipient \in LookupUser(ownerId) :
              PostGiveAFrag_Give(r, ownerId, recipient)
    \/ PostGiveAFrag_JournalRecipient
    \/ PostGiveAFrag_JournalGiver
    \/ PostGiveAFrag_RemoveFan

Spec == Init /\ [][Next]_vars

\* The writing paths of add-new-item, rip and give-a-frag, any journal
\* write of which may throw.
NextThrows ==
    \/ \E fragsAvailable \in (0 - 1)..MaxAvail :
          AddNewItem_InsertItem(FirstTime, FirstName, FirstType, fragsAvailable)
    \/ AddNewItem_Journal
    \/ AddNewItem_JournalThrows
    \/ \E user \in Users, fragId \in FragIds :
          Rip_MarkAsDead(user, fragId)
    \/ Rip_Journal
    \/ Rip_JournalThrows
    \/ \E user \in Users, fragOf \in FragIds :
          PostGiveAFrag_Validate(user, fragOf)
    \/ \E r \in 1..MaxInflight, ownerId \in Users :
          \E recipient \in LookupUser(ownerId) :
              PostGiveAFrag_Give(r, ownerId, recipient)
    \/ PostGiveAFrag_JournalRecipient
    \/ PostGiveAFrag_JournalGiver
    \/ PostGiveAFrag_RemoveFan
    \/ PostGiveAFrag_JournalThrows

SpecThrows == Init /\ [][NextThrows]_vars

\* ------------------------------------------------------- POST /import

\* The validation without "assert(date, 'Missing date')".
GoodTransaction_NoDate(t) ==
    /\ t.from /\ isGoodId(t.fromId)
    /\ CASE t.type \in {"gave", "trans"} -> t.to /\ isGoodId(t.toId)
         [] t.type = "rip" -> TRUE
         [] OTHER -> FALSE

\* The validation of the parsed log: every entry has a date, a from name
\* with a good fromId, a known type and, for 'gave' and 'trans', a to name
\* with a good toId.
GoodTransaction(t) ==
    /\ t.date
    /\ t.from /\ isGoodId(t.fromId)
    /\ CASE t.type \in {"gave", "trans"} -> t.to /\ isGoodId(t.toId)
         [] t.type = "rip" -> TRUE
         [] OTHER -> FALSE

good(transactions) ==
    \A i \in DOMAIN transactions : GoodTransaction(transactions[i])

\* new Map([[user.id, fragId]]); 0 stands for "no entry" (fragMap.get
\* delivers undefined, and no frag has id 0).
NewFragMap(userId, fragId) ==
    [h \in Holders |-> IF h = userId THEN fragId ELSE 0]

\* The history an import keeps: log, one record per replayed entry with
\* the frag its fromId held (0: skipped) and the frag it made (0: none);
\* entry, the tables as they were when the current entry began.
HistImport(h, fs, js) ==
    [base |-> h.base, splits |-> h.splits, clean |-> h.clean,
     log |-> <<>>, entry |-> [frags |-> fs, journals |-> js]]

HistEntry(h, fs, js, t, held, made) ==
    [h EXCEPT !.log = Append(@, [type |-> t.type, fromId |-> t.fromId,
                                 toId |-> t.toId, held |-> held, made |-> made]),
              !.entry = [frags |-> fs, journals |-> js]]

\* validateUserThread(user.id, threadId) finds no thread of this user.
Import_NotYours ==
    /\ running.pc = "idle"
    /\ reply' = [code |-> "NOT_YOURS"]
    /\ UNCHANGED <<mothers, frags, journals, fans, shares, inflight, running, hist>>

\* The log is one that fails the validation: INVALID_IMPORT, before
\* anything is written.  The handler keeps nothing of the log.
Import_Invalid ==
    /\ running.pc = "idle"
    /\ ~(\A n \in 0..MaxBatch : \A transactions \in Transactions(n) :
            good(transactions))
    /\ reply' = [code |-> "INVALID_IMPORT"]
    /\ UNCHANGED <<mothers, frags, journals, fans, shares, inflight, running, hist>>

\* db.insertItem({..., rules: 'dbtc', ownerId: user.id, fragsAvailable: 0}).
\* From here to res.json the handler has no await.
Import_Insert ==
    \E user \in Users, n \in 0..MaxBatch :
        /\ running.pc = "idle"
        /\ Len(mothers) + Len(frags) + Cardinality(Waiting) + 2 + n <= MaxRows + 1
        /\ \E transactions \in Transactions(n) :
              /\ good(transactions)
              /\ LET r == insertItem(mothers, frags,
                             [ownerId |-> user, rules |-> "dbtc",
                              timestamp |-> FirstTime, name |-> FirstName,
                              type |-> FirstType,
                              fragsAvailable |-> 0])
                 IN  /\ mothers' = r.mothers
                     /\ frags' = r.frags
                     /\ running' = [pc |-> "importAcquired", user |-> user,
                                    motherId |-> r.motherId, fragId |-> r.fragId,
                                    transactions |-> transactions,
                                    fragMap |-> NewFragMap(user, r.fragId),
                                    fromFragId |-> 0, toFragId |-> 0]
                     /\ hist' = HistImport([HistInsert(hist, 0)
                                               EXCEPT !.clean = Append(@, TRUE)],
                                           r.frags, journals)
        /\ reply' = NoReply
        /\ UNCHANGED <<journals, fans, shares, inflight>>

\* db.addJournal({fragId, entryType: 'acquired', ...}).
Import_JournalAcquired ==
    /\ running.pc = "importAcquired"
    /\ journals' = addJournal(journals, running.fragId, "acquired")
    /\ running' = [running EXCEPT !.pc = "importImported"]
    /\ UNCHANGED <<mothers, frags, fans, shares, inflight, reply, hist>>

\* db.addJournal({fragId, entryType: 'imported', ...}); the map is made.
Import_JournalImported ==
    /\ running.pc = "importImported"
    /\ journals' = addJournal(journals, running.fragId, "imported")
    /\ running' = [running EXCEPT !.pc = "importReplay"]
    /\ UNCHANGED <<mothers, frags, fans, shares, inflight, reply, hist>>

\* transactions.forEach is at an entry.
AtEntry == running.pc = "importReplay" /\ running.transactions # <<>>

\* A problem that ends the replay instead of this entry only.
NextEntry_Stops(r) ==
    [r EXCEPT !.pc = "importReplay", !.transactions = <<>>,
              !.fromFragId = 0, !.toFragId = 0]

\* The entry is done: forEach goes on with the next one.
NextEntry(r) ==
    [r EXCEPT !.pc = "importReplay", !.transactions = Tail(@),
              !.fromFragId = 0, !.toFragId = 0]

\* fragMap.get(fromId) is undefined: problem(...) logs, and the callback
\* returns.  Nothing is written; the step is the handler's own.
Import_Skip ==
    /\ AtEntry
    /\ LET t == Head(running.transactions)
       IN  /\ running.fragMap[t.fromId] = 0
           /\ hist' = HistEntry(hist, frags, journals, t, 0, 0)
    /\ running' = NextEntry(running)
    /\ UNCHANGED <<mothers, frags, journals, fans, shares, inflight, reply>>

\* The values with ownerId: fromId, the giver, in place of toId.
ImportValues_OwnedByGiver(motherId, t, fromFragId) ==
    [motherId |-> motherId, ownerId |-> t.fromId, fragOf |-> fromFragId,
     fragsAvailable |-> 0, transfer |-> FALSE]

\* The values both 'gave' and 'trans' hand to db.giveAFrag: no transfer.
ImportValues(motherId, t, fromFragId) ==
    [motherId |-> motherId, ownerId |-> t.toId, fragOf |-> fromFragId,
     fragsAvailable |-> 0, transfer |-> FALSE]

FragMapSet(fragMap, id, fragId) == [fragMap EXCEPT ![id] = fragId]

\* fragMap.delete left out.
FragMapDelete_Keeps(fragMap, id) == fragMap

FragMapDelete(fragMap, id) == [fragMap EXCEPT ![id] = 0]

\* case 'gave': db.giveAFrag(fromId, {...}); fragMap.set(toId, toFragId).
\* A throw of giveAFrag ends the handler.
Import_Gave_Give ==
    /\ AtEntry
    /\ LET t == Head(running.transactions)
           fromFragId == running.fragMap[t.fromId]
           values == ImportValues(running.motherId, t, fromFragId)
           g == giveAFrag(frags, t.fromId, values)
       IN  /\ t.type = "gave"
           /\ fromFragId # 0
           /\ IF g.ok
              THEN /\ frags' = g.frags
                   /\ running' = [running EXCEPT
                          !.pc = "importGaveAcquired",
                          !.fragMap = FragMapSet(@, t.toId, g.fragId),
                          !.fromFragId = fromFragId,
                          !.toFragId = g.fragId]
                   /\ hist' = HistEntry(HistSplit(hist, frags, values),
                                        frags, journals, t, fromFragId, g.fragId)
                   /\ reply' = reply
              ELSE /\ running' = Idle
                   /\ reply' = [code |-> "error"]
                   /\ UNCHANGED <<frags, hist>>
    /\ UNCHANGED <<mothers, journals, fans, shares, inflight>>

\* db.addJournal({fragId: toFragId, entryType: 'acquired', ...}).
Import_Gave_JournalRecipient ==
    /\ running.pc = "importGaveAcquired"
    /\ journals' = addJournal(journals, running.toFragId, "acquired")
    /\ running' = [running EXCEPT !.pc = "importGaveGave"]
    /\ UNCHANGED <<mothers, frags, fans, shares, inflight, reply, hist>>

\* db.addJournal({fragId: fromFragId, entryType: 'gave', ...}); break.
Import_Gave_JournalGiver ==
    /\ running.pc = "importGaveGave"
    /\ journals' = addJournal(journals, running.fromFragId, "gave")
    /\ running' = NextEntry(running)
    /\ UNCHANGED <<mothers, frags, fans, shares, inflight, reply, hist>>

\* case 'trans': the same db.giveAFrag (a split); fragMap.set(toId,
\* toFragId) and then fragMap.delete(fromId).
Import_Trans_Give ==
    /\ AtEntry
    /\ LET t == Head(running.transactions)
           fromFragId == running.fragMap[t.fromId]
           values == ImportValues(running.motherId, t, fromFragId)
           g == giveAFrag(frags, t.fromId, values)
       IN  /\ t.type = "trans"
           /\ fromFragId # 0
           /\ IF g.ok
              THEN /\ frags' = g.frags
                   /\ running' = [running EXCEPT
                          !.pc = "importTransAcquired",
                          !.fragMap = FragMapDelete(
                                         FragMapSet(@, t.toId, g.fragId), t.fromId),
                          !.fromFragId = fromFragId,
                          !.toFragId = g.fragId]
                   /\ hist' = HistEntry(HistSplit(hist, frags, values),
                                        frags, journals, t, fromFragId, g.fragId)
                   /\ reply' = reply
              ELSE /\ running' = Idle
                   /\ reply' = [code |-> "error"]
                   /\ UNCHANGED <<frags, hist>>
    /\ UNCHANGED <<mothers, journals, fans, shares, inflight>>

Import_Trans_JournalRecipient ==
    /\ running.pc = "importTransAcquired"
    /\ journals' = addJournal(journals, running.toFragId, "acquired")
    /\ running' = [running EXCEPT !.pc = "importTransGave"]
    /\ UNCHANGED <<mothers, frags, fans, shares, inflight, reply, hist>>

Import_Trans_JournalGiver ==
    /\ running.pc = "importTransGave"
    /\ journals' = addJournal(journals, running.fromFragId, "gave")
    /\ running' = [running EXCEPT !.pc = "importTransDead"]
    /\ UNCHANGED <<mothers, frags, fans, shares, inflight, reply, hist>>

\* db.markAsDead(fromId, fromFragId, 'transferred'); break.
Import_Trans_MarkAsDead ==
    /\ running.pc = "importTransDead"
    /\ LET t == Head(running.transactions)
       IN  /\ frags' = markAsDead(frags, t.fromId, running.fromFragId, "transferred")
           /\ hist' = HistDead(hist, frags, running.fromFragId)
    /\ running' = NextEntry(running)
    /\ UNCHANGED <<mothers, journals, fans, shares, inflight, reply>>

\* case 'rip': fragMap.delete(fromId); db.markAsDead(fromId, fromFragId).
Import_Rip_MarkAsDead ==
    /\ AtEntry
    /\ LET t == Head(running.transactions)
           fromFragId == running.fragMap[t.fromId]
       IN  /\ t.type = "rip"
           /\ fromFragId # 0
           /\ frags' = markAsDead(frags, t.fromId, fromFragId, NULLSTATUS)
           /\ running' = [running EXCEPT
                  !.pc = "importRipJournal",
                  !.fragMap = FragMapDelete(@, t.fromId),
                  !.fromFragId = fromFragId]
           /\ hist' = HistEntry(HistDead(hist, frags, fromFragId),
                                frags, journals, t, fromFragId, 0)
    /\ UNCHANGED <<mothers, journals, fans, shares, inflight, reply>>

\* db.addJournal({fragId: fromFragId, entryType: 'rip', ...}); break.
Import_Rip_Journal ==
    /\ running.pc = "importRipJournal"
    /\ journals' = addJournal(journals, running.fromFragId, "rip")
    /\ running' = NextEntry(running)
    /\ UNCHANGED <<mothers, frags, fans, shares, inflight, reply, hist>>

\* forEach is through.
Replayed == running.pc = "importReplay" /\ running.transactions = <<>>

\* res.json({motherId, fragId}); the history of this import ends here.
Import_Reply ==
    /\ Replayed
    /\ running' = Idle
    /\ reply' = [code |-> "ok"]
    /\ hist' = HistImport(hist, <<>>, <<>>)
    /\ UNCHANGED <<mothers, frags, journals, fans, shares, inflight>>

NextImport ==
    \/ Import_NotYours
    \/ Import_Invalid
    \/ Import_Insert
    \/ Import_JournalAcquired
    \/ Import_JournalImported
    \/ Import_Skip
    \/ Import_Gave_Give
    \/ Import_Gave_JournalRecipient
    \/ Import_Gave_JournalGiver
    \/ Import_Trans_Give
    \/ Import_Trans_JournalRecipient
    \/ Import_Trans_JournalGiver
    \/ Import_Trans_MarkAsDead
    \/ Import_Rip_MarkAsDead
    \/ Import_Rip_Journal
    \/ Import_Reply

SpecImport == Init /\ [][NextImport]_vars

\* --------------------------------------------------- GET /share/:fragId

\* SELECT_FRAG_JOURNALS: the journal rows of the frag, ORDER BY timestamp
\* DESC.  A row's timestamp is the time of its insertion, so this is the
\* reverse of the insertion order.
SELECT_FRAG_JOURNALS(js, fragId) ==
    LET OfFrag(j) == j.fragId = fragId
        s == SelectSeq(js, OfFrag)
    IN  [i \in 1..Len(s) |-> s[Len(s) + 1 - i]]

\* SELECT_A_FRAG: the frag joined with its mother, or no row.
SELECT_A_FRAG(ms, fs, fragId) ==
    {i \in DOMAIN fs : i = fragId /\ fs[i].motherId \in DOMAIN ms}

\* selectFrag, for a frag SELECT_A_FRAG finds: [frag, journals].
selectFrag(ms, fs, js, fragId) ==
    [frag |-> [fragId |-> fragId,
               motherId |-> fs[fragId].motherId,
               rules |-> ms[fs[fragId].motherId].rules,
               ownerId |-> fs[fragId].ownerId,
               fragOf |-> fs[fragId].fragOf,
               picture |-> fs[fragId].picture,
               notes |-> fs[fragId].notes,
               fragsAvailable |-> fs[fragId].fragsAvailable,
               isAlive |-> fs[fragId].isAlive,
               status |-> fs[fragId].status],
     journals |-> SELECT_FRAG_JOURNALS(js, fragId)]

\* JSON.stringify({frag, journals}): the text lists the fields of frag and
\* then the journal rows in order; two texts are equal exactly when these
\* are.
JSON_stringify(frag, js) == <<"frag", frag, "journals", js>>

\* crypto.createHash('sha256').update(json).digest('hex'), taken to have
\* no collision among the texts a run hashes.
sha256(json) == <<"sha256", json>>

\* SELECT_SHARE_BY_HASH: the rows with this hash.
SELECT_SHARE_BY_HASH(sh, hash) == {i \in DOMAIN sh : sh[i].hash = hash}

\* The schema declares shares.shareId unique.
SHARE_ID_UNIQUE(sh, shareId) == \A i \in DOMAIN sh : sh[i].shareId # shareId

\* INSERT_SHARE as INSERT OR REPLACE.
INSERT_SHARE_OrReplace(sh, row) ==
    IF SHARE_ID_UNIQUE(sh, row.shareId)
    THEN [ok |-> TRUE, shares |-> Append(sh, row)]
    ELSE [ok |-> TRUE,
          shares |-> [i \in DOMAIN sh |->
                         IF sh[i].shareId = row.shareId THEN row ELSE sh[i]]]

\* db.run(INSERT_SHARE, ...): a plain INSERT; it throws when the shareId is
\* already in the table.
INSERT_SHARE(sh, row) ==
    IF SHARE_ID_UNIQUE(sh, row.shareId)
    THEN [ok |-> TRUE, shares |-> Append(sh, row)]
    ELSE [ok |-> FALSE, shares |-> sh]

\* shareFrag without the lookup by hash.
shareFrag_AlwaysInserts(sh, frag, js, random) ==
    LET json == JSON_stringify(frag, js)
        hash == sha256(json)
        ins == INSERT_SHARE(sh, [shareId |-> random, hash |-> hash, json |-> json])
    IN  [ok |-> ins.ok, shares |-> ins.shares, shareId |-> random]

\* shareFrag(frag, journals); random is what SELECT_RANDOM_STRING delivers.
shareFrag(sh, frag, js, random) ==
    LET json == JSON_stringify(frag, js)
        hash == sha256(json)
        result == SELECT_SHARE_BY_HASH(sh, hash)
        ins == INSERT_SHARE(sh, [shareId |-> random, hash |-> hash, json |-> json])
    IN  IF result # {}
        THEN [ok |-> TRUE, shares |-> sh,
              shareId |-> sh[CHOOSE i \in result : \A k \in result : i <= k].shareId]
        ELSE [ok |-> ins.ok, shares |-> ins.shares, shareId |-> random]

\* No frag with this id: INVALID_FRAG; not the caller's: NOT_YOURS.
Share_Reject ==
    \E user \in Users, fragId \in FragIds :
        /\ running.pc = "idle"
        /\ IF SELECT_A_FRAG(mothers, frags, fragId) = {}
           THEN reply' = [code |-> "INVALID_FRAG"]
           ELSE /\ frags[fragId].ownerId # user
                /\ reply' = [code |-> "NOT_YOURS"]
        /\ UNCHANGED <<mothers, frags, journals, fans, shares, inflight, running, hist>>

\* db.selectFrag(fragId) finds the caller's frag; the handler awaits
\* lookupUser(frag.ownerId, true), which delivers the owner or nothing,
\* and sets frag.owner, frag.ownsIt = false and frag.isStatic = true.
Share_Select ==
    \E user \in Users, fragId \in FragIds, r \in 1..MaxInflight, owner \in BOOLEAN :
        /\ running.pc = "idle"
        /\ SELECT_A_FRAG(mothers, frags, fragId) # {}
        /\ frags[fragId].ownerId = user
        /\ inflight[r].pc = "free"
        /\ \A q \in 1..(r - 1) : inflight[q].pc # "free"
        /\ LET s == selectFrag(mothers, frags, journals, fragId)
           IN  inflight' = [inflight EXCEPT ![r] =
                  [pc |-> "share", user |-> user,
                   frag |-> [owner |-> owner, ownsIt |-> FALSE, isStatic |-> TRUE,
                             row |-> s.frag],
                   journals |-> s.journals]]
        /\ reply' = NoReply
        /\ UNCHANGED <<mothers, frags, journals, fans, shares, running, hist>>

\* db.shareFrag(frag, journals); res.json({url}).
Share_ShareFrag ==
    \E r \in 1..MaxInflight, random \in 1..MaxShareId :
        /\ running.pc = "idle"
        /\ inflight[r].pc = "share"
        /\ LET s == shareFrag(shares, inflight[r].frag, inflight[r].journals, random)
           IN  /\ Len(s.shares) <= MaxShares
               /\ shares' = s.shares
               /\ reply' = IF s.ok THEN [code |-> "ok", shareId |-> s.shareId]
                                   ELSE [code |-> "error"]
        /\ inflight' = [inflight EXCEPT ![r] = Free]
        /\ UNCHANGED <<mothers, frags, journals, fans, running, hist>>

\* The ledger after user 1 has added one item with one frag available
\* (add-new-item, both commits), nothing shared yet.
InitShare ==
    /\ mothers = <<[timestamp |-> FirstTime, name |-> FirstName,
                    type |-> FirstType, rules |-> "dbtc"]>>
    /\ frags = <<[motherId |-> 1, ownerId |-> 1, fragOf |-> NULL,
                  fragsAvailable |-> 1, isAlive |-> 1, status |-> NULLSTATUS,
                  picture |-> NULLSTATUS, notes |-> NULLSTATUS]>>
    /\ journals = <<[fragId |-> 1, entryType |-> "acquired"]>>
    /\ fans = {}
    /\ shares = <<>>
    /\ inflight = [r \in 1..MaxInflight |-> Free]
    /\ running = Idle
    /\ reply = NoReply
    /\ hist = [base |-> <<1>>, splits |-> <<0>>, clean |-> <<TRUE>>]

\* The share route with routes that change what a frag's page shows.
NextShare ==
    \/ \E user \in Users, fragId \in FragIds :
          PutAvailable_Update(user, fragId)
    \/ PutAvailable_Journal
    \/ \E user \in Users, fragId \in FragIds :
          Rip_MarkAsDead(user, fragId)
    \/ Rip_Journal
    \/ Share_Reject
    \/ Share_Select
    \/ Share_ShareFrag

SpecShare == InitShare /\ [][NextShare]_vars

\* ------------------------------------- GET /collection/:rules/p/:page

\* The query string of the collection route: each filter is absent (NULL
\* through NULL_FILTERS) or set.  A name pattern is a name or "%".
Filters == [type : {NULLSTATUS, "SPS"}, ownerId : {NULL, 1}, name : {NULLSTATUS, "%"}]

\* NULL_FILTERS: what selectCollectionPaged binds when the query names no
\* filter.
NULL_FILTERS == [type |-> NULLSTATUS, ownerId |-> NULL, name |-> NULLSTATUS]

\* The :page parameter, 1 based.
Pages == 1..(MaxRows \div 2 + 1)

\* name LIKE pattern, for the name patterns of Filters.
LIKE(name, pattern) == pattern = "%" \/ pattern = name

\* The view motherFrags: a mother joined with its root frag.
motherFrags(ms, fs) ==
    {m \in DOMAIN ms : \E f \in DOMAIN fs : fs[f].motherId = m /\ fs[f].fragOf = NULL}

RootOf(fs, m) == CHOOSE f \in DOMAIN fs : fs[f].motherId = m /\ fs[f].fragOf = NULL

\* The WHERE both the query and its subquery have.
WHERE_COLLECTION(ms, fs, rules, filters) ==
    {m \in motherFrags(ms, fs) :
        /\ ms[m].rules = rules
        /\ (filters.type = NULLSTATUS \/ ms[m].type = filters.type)
        /\ (filters.ownerId = NULL \/ fs[RootOf(fs, m)].ownerId = filters.ownerId)
        /\ (filters.name = NULLSTATUS \/ LIKE(ms[m].name, filters.name))}

\* ORDER BY mf.timestamp DESC of the mothers in S: every order with no
\* row before one of a later timestamp.  SQL leaves the order of rows of
\* one timestamp to the engine, for each query on its own.
ORDER_BY_TIMESTAMP_DESC(ms, S) ==
    {s \in [1..Cardinality(S) -> S] :
        /\ \A i, j \in 1..Cardinality(S) : i # j => s[i] # s[j]
        /\ \A i \in 1..(Cardinality(S) - 1) : ms[s[i]].timestamp >= ms[s[i + 1]].timestamp}

Range(s) == {s[i] : i \in DOMAIN s}

\* LIMIT n; a negative n is no limit.
LIMIT(s, n) == IF n < 0 \/ n >= Len(s) THEN s ELSE SubSeq(s, 1, n)

RECURSIVE SumAvailable(_, _)
SumAvailable(fs, S) ==
    IF S = {} THEN 0
    ELSE LET f == CHOOSE x \in S : TRUE
         IN  fs[f].fragsAvailable + SumAvailable(fs, S \ {f})

\* One grouped row of SELECT_COLLECTION_PAGED.  The two LEFT OUTER JOINs
\* give a mother one row for each pair of a live child frag and a fan, a
\* missing side counting as one NULL row.  SUM runs over the joined rows, so
\* each child is added once for each fan of the mother.
CollectionRow(ms, fs, fn, userId, m) ==
    LET kids == {f \in DOMAIN fs :
                    fs[f].fragOf # NULL /\ fs[f].isAlive = 1 /\ fs[f].motherId = m}
        likes == {u \in Holders : <<m, u>> \in fn}
    IN  [motherId |-> m,
         timestamp |-> ms[m].timestamp,
         name |-> ms[m].name,
         type |-> ms[m].type,
         rules |-> ms[m].rules,
         ownerId |-> fs[RootOf(fs, m)].ownerId,
         ownsIt |-> IF fs[RootOf(fs, m)].ownerId = userId THEN 1 ELSE 0,
         otherFragsAvailable |-> SumAvailable(fs, kids) * Max(Cardinality(likes), 1),
         hasOne |-> IF \E f \in kids : fs[f].ownerId = userId THEN 1 ELSE 0,
         childCount |-> Cardinality(kids),
         isFan |-> IF userId \in likes THEN 1 ELSE 0,
         fanCount |-> Cardinality(likes)]

\* selectCollectionPaged: the results the query can give.  The subquery
\* names the first ITEMS_PER_PAGE * (page - 1) mothers of its order; the
\* query takes the first ITEMS_PER_PAGE of the others in its own order.
selectCollectionPaged(ms, fs, fn, userId, rules, page, filters) ==
    LET matching == WHERE_COLLECTION(ms, fs, rules, filters)
    IN  UNION {
          {[i \in DOMAIN LIMIT(o, ITEMS_PER_PAGE) |->
                CollectionRow(ms, fs, fn, userId, LIMIT(o, ITEMS_PER_PAGE)[i])] :
             o \in ORDER_BY_TIMESTAMP_DESC(ms,
                     matching \ Range(LIMIT(sub, ITEMS_PER_PAGE * (page - 1))))} :
          sub \in ORDER_BY_TIMESTAMP_DESC(ms, matching)}

\* VALIDATE_RULES: the rule is a row of the rules table.
validateRules(rules) == rules \in Rules

\* The last page a client was sent: the request, the mothers of its rows
\* in order, and the number of mothers there were (not program state).
NoFetch == [user |-> 0, rules |-> NULLSTATUS, page |-> 0,
            filters |-> [type |-> NULLSTATUS, ownerId |-> NULL, name |-> NULLSTATUS],
            ids |-> <<>>, count |-> 0]

\* The rule is unknown, or it is 'private': INVALID_RULES.
Collection_Reject ==
    \E rules \in Rules \cup {"none"} :
        /\ running.pc = "idle"
        /\ (~validateRules(rules) \/ rules = "private")
        /\ reply' = [code |-> "INVALID_RULES"]
        /\ UNCHANGED <<mothers, frags, journals, fans, shares, inflight, running, hist>>

\* db.selectCollectionPaged(user.id, rules, page, query); res.json.  The
\* awaits in between decorate the rows with forum users and read nothing
\* of the ledger.
Collection_Get(user, rules, page, filters) ==
    /\ running.pc = "idle"
    /\ validateRules(rules)
    /\ rules # "private"
    /\ \E rows \in selectCollectionPaged(mothers, frags, fans, user, rules, page, filters) :
          /\ reply' = [code |-> "ok", mothers |-> rows]
          /\ hist' = [hist EXCEPT !.fetch =
                        [user |-> user, rules |-> rules, page |-> page,
                         filters |-> filters,
                         ids |-> [i \in DOMAIN rows |-> rows[i].motherId],
                         count |-> Len(mothers)]]
    /\ UNCHANGED <<mothers, frags, journals, fans, shares, inflight, running>>

\* An empty ledger and a client that has fetched nothing yet.
InitCollection ==
    /\ mothers = <<>>
    /\ frags = <<>>
    /\ journals = <<>>
    /\ fans = {}
    /\ shares = <<>>
    /\ inflight = [r \in 1..MaxInflight |-> Free]
    /\ running = Idle
    /\ reply = NoReply
    /\ hist = [base |-> <<>>, splits |-> <<>>, clean |-> <<>>, fetch |-> NoFetch]

\* Clients that add items and page through the collection.
NextCollection ==
    \/ \E timestamp \in 1..MaxTime, type \in {FirstType, "Softie"} :
          AddNewItem_InsertItem(timestamp, FirstName, type, 0)
    \/ AddNewItem_Journal
    \/ Collection_Reject
    \/ \E user \in Users, rules \in Rules, page \in Pages, filters \in Filters :
          Collection_Get(user, rules, page, filters)

SpecCollection == InitCollection /\ [][NextCollection]_vars

\* The ledger after user 1 has added one 'dbtc' item with one frag
\* available and has given that frag to user 2 (add-new-item and
\* give-a-frag, all their commits); no page fetched yet.
InitKids ==
    /\ mothers = <<[timestamp |-> FirstTime, name |-> FirstName,
                    type |-> FirstType, rules |-> "dbtc"]>>
    /\ frags = <<[motherId |-> 1, ownerId |-> 1, fragOf |-> NULL,
                  fragsAvailable |-> 0, isAlive |-> 1, status |-> NULLSTATUS,
                  picture |-> NULLSTATUS, notes |-> NULLSTATUS],
                 [motherId |-> 1, ownerId |-> 2, fragOf |-> 1,
                  fragsAvailable |-> 0, isAlive |-> 1, status |-> NULLSTATUS,
                  picture |-> NULLSTATUS, notes |-> NULLSTATUS]>>
    /\ journals = <<[fragId |-> 1, entryType |-> "acquired"],
                    [fragId |-> 2, entryType |-> "acquired"],
                    [fragId |-> 1, entryType |-> "gave"]>>
    /\ fans = {}
    /\ shares = <<>>
    /\ inflight = [r \in 1..MaxInflight |-> Free]
    /\ running = Idle
    /\ reply = NoReply
    /\ hist = [base |-> <<1, 0>>, splits |-> <<1, 0>>, clean |-> <<TRUE>>,
               fetch |-> NoFetch]

\* The collection route with the routes that change the counters of a
\* mother's frags and its fans.
NextKids ==
    \/ \E user \in Users, fragId \in FragIds :
          PutAvailable_Update(user, fragId)
    \/ PutAvailable_Journal
    \/ \E user \in Users, fragId \in FragIds :
          Rip_MarkAsDead(user, fragId)
    \/ Rip_Journal
    \/ PutFan
    \/ DeleteFan
    \/ \E user \in Users, rules \in Rules, page \in Pages, filters \in Filters :
          Collection_Get(user, rules, page, filters)

SpecKids == InitKids /\ [][NextKids]_vars

\* ------------------------------------------------ POST /update/:fragId

\* The body of an update: the fields UPDATE_MOTHER and UPDATE_FRAG bind
\* that the model keeps.  fixDates puts the clock's reading where the body
\* has no timestamp.
UpdateBodies ==
    [timestamp : 1..MaxTime, name : {FirstName, "zoa"}, type : {FirstType, "Softie"},
     notes : {NULLSTATUS, "note"}]

\* UPDATE_MOTHER without its WHERE.
UPDATE_MOTHER_EveryMother(ms, b) ==
    [m \in DOMAIN ms |->
        [ms[m] EXCEPT !.timestamp = b.timestamp, !.name = b.name, !.type = b.type]]

\* updateMother: UPDATE mothers SET timestamp, name, type, ... WHERE
\* motherId = $motherId; rules is not among the columns set.
UPDATE_MOTHER(ms, b) ==
    [m \in DOMAIN ms |->
        IF m = b.motherId
        THEN [ms[m] EXCEPT !.timestamp = b.timestamp, !.name = b.name, !.type = b.type]
        ELSE ms[m]]

\* updateFrag: UPDATE frags SET timestamp, dateAcquired, notes WHERE
\* fragId = $fragId.
UPDATE_FRAG(fs, b) ==
    [i \in DOMAIN fs |->
        IF i = b.fragId THEN [fs[i] EXCEPT !.notes = b.notes] ELSE fs[i]]

\* UPDATE frags SET picture WHERE fragId = $fragId AND ownerId = $ownerId.
updateFragPicture(fs, ownerId, fragId, picture) ==
    [i \in DOMAIN fs |->
        IF i = fragId /\ fs[i].ownerId = ownerId
        THEN [fs[i] EXCEPT !.picture = picture]
        ELSE fs[i]]

\* The row validateFrag returns (SELECT * FROM mothers, frags), without the
\* timestamp the route leaves out of its comparison.
ValidFragRow(ms, fs, fragId) ==
    [name |-> ms[fs[fragId].motherId].name,
     type |-> ms[fs[fragId].motherId].type,
     rules |-> ms[fs[fragId].motherId].rules,
     frag |-> fs[fragId]]

\* The journal rows the update route and the journal route wrote.
Posts(js) == {j \in DOMAIN js : js[j].entryType \in {"changed", "good", NULLSTATUS}}

\* validateFrag(user.id, fragId, true, -1) finds no row: INVALID_FRAG.
Update_Reject(user, fragId) ==
    /\ running.pc = "idle"
    /\ ~validateFrag(mothers, frags, user, fragId, TRUE, 0 - 1)
    /\ reply' = [code |-> "INVALID_FRAG"]
    /\ UNCHANGED <<mothers, frags, journals, fans, shares, inflight, running, hist>>

\* The frag is a root (!frag.fragOf): db.updateMother({...body, motherId}).
Update_Mother(user, fragId) ==
    \E body \in UpdateBodies :
        /\ running.pc = "idle"
        /\ Cardinality(Posts(journals)) < MaxEdits
        /\ validateFrag(mothers, frags, user, fragId, TRUE, 0 - 1)
        /\ frags[fragId].fragOf = NULL
        /\ mothers' = UPDATE_MOTHER(mothers,
                          [motherId |-> frags[fragId].motherId,
                           timestamp |-> body.timestamp,
                           name |-> body.name, type |-> body.type])
        /\ running' = [pc |-> "updateFrag", user |-> user, fragId |-> fragId,
                       body |-> body, frag |-> ValidFragRow(mothers, frags, fragId)]
        /\ reply' = NoReply
        /\ UNCHANGED <<frags, journals, fans, shares, inflight, hist>>

\* db.updateFrag({...body, fragId}); the frag is validated again and
\* compared with the row of the first validation.
UpdateFrag(user, fragId, body, frag) ==
    /\ frags' = UPDATE_FRAG(frags, [fragId |-> fragId, notes |-> body.notes])
    /\ running' = [pc |-> "updateJournal", user |-> user, fragId |-> fragId,
                   changed |-> frag # ValidFragRow(mothers, frags', fragId)]
    /\ reply' = NoReply
    /\ UNCHANGED <<mothers, journals, fans, shares, inflight, hist>>

\* The first write of an update of a frag that is not a root, or the
\* second of an update of a root.
Update_FragOf(user, fragId) ==
    \E body \in UpdateBodies :
        /\ running.pc = "idle"
        /\ Cardinality(Posts(journals)) < MaxEdits
        /\ validateFrag(mothers, frags, user, fragId, TRUE, 0 - 1)
        /\ frags[fragId].fragOf # NULL
        /\ UpdateFrag(user, fragId, body, ValidFragRow(mothers, frags, fragId))

Update_Frag ==
    \/ \E user \in Users, fragId \in FragIds : Update_FragOf(user, fragId)
    \/ /\ running.pc = "updateFrag"
       /\ UpdateFrag(running.user, running.fragId, running.body, running.frag)

\* if (changed) db.addJournal({fragId, entryType: 'changed', ...});
\* res.json({}).
Update_Journal ==
    /\ running.pc = "updateJournal"
    /\ journals' = IF running.changed
                   THEN addJournal(journals, running.fragId, "changed")
                   ELSE journals
    /\ running' = Idle
    /\ reply' = [code |-> "ok"]
    /\ UNCHANGED <<mothers, frags, fans, shares, inflight, hist>>

\* --------------------------------------------- POST /frag/:fragId/journal

\* SELECT_JOURNAL: the row with that journalId.
SELECT_JOURNAL(js, journalId) == js[journalId]

Journal_Reject(user, fragId) ==
    /\ running.pc = "idle"
    /\ ~validateFrag(mothers, frags, user, fragId, TRUE, 0 - 1)
    /\ reply' = [code |-> "INVALID_FRAG"]
    /\ UNCHANGED <<mothers, frags, journals, fans, shares, inflight, running, hist>>

\* db.addJournal({fragId, entryType, ...}), which returns the row read
\* back by the id of the insert.
Journal_Add(user, fragId) ==
    \E entryType \in {"good", NULLSTATUS}, makeCoverPicture \in BOOLEAN :
        /\ running.pc = "idle"
        /\ Cardinality(Posts(journals)) < MaxEdits
        /\ validateFrag(mothers, frags, user, fragId, TRUE, 0 - 1)
        /\ journals' = addJournal(journals, fragId, entryType)
        /\ running' = [pc |-> "journalPicture", user |-> user, fragId |-> fragId,
                       makeCoverPicture |-> makeCoverPicture,
                       journal |-> SELECT_JOURNAL(journals', Len(journals) + 1)]
        /\ reply' = NoReply
        /\ UNCHANGED <<mothers, frags, fans, shares, inflight, hist>>

\* if (body.makeCoverPicture && picture) db.updateFragPicture(user.id,
\* fragId, picture); res.json({journal, coverPicture}).
Journal_Picture ==
    /\ running.pc = "journalPicture"
    /\ frags' = IF running.makeCoverPicture
                THEN updateFragPicture(frags, running.user, running.fragId, "picture")
                ELSE frags
    /\ running' = Idle
    /\ reply' = [code |-> "ok", journal |-> running.journal]
    /\ UNCHANGED <<mothers, journals, fans, shares, inflight, hist>>

\* The routes that change a frag, its mother or its journal, from the
\* ledger of InitKids; of give-a-frag, the requests that end without a
\* write (the frag or the recipient is refused).
NextEdit ==
    \/ \E user \in Users, fragId \in FragIds :
          Update_Reject(user, fragId)
    \/ \E user \in Users, fragId \in FragIds :
          Update_Mother(user, fragId)
    \/ Update_Frag
    \/ Update_Journal
    \/ \E user \in Users, fragId \in FragIds :
          Journal_Reject(user, fragId)
    \/ \E user \in Users, fragId \in FragIds :
          Journal_Add(user, fragId)
    \/ Journal_Picture
    \/ \E user \in Users, fragId \in FragIds :
          PutAvailable_Reject(user, fragId)
    \/ \E user \in Users, fragId \in FragIds :
          PutAvailable_Update(user, fragId)
    \/ PutAvailable_Journal
    \/ \E user \in Users, fragId \in FragIds :
          Rip_Reject(user, fragId)
    \/ \E user \in Users, fragId \in FragIds :
          Rip_MarkAsDead(user, fragId)
    \/ Rip_Journal
    \/ \E user \in Users, fragOf \in FragIds :
          PostGiveAFrag_Reject(user, fragOf)
    \/ \E user \in Users, fragOf \in FragIds :
          PostGiveAFrag_Validate(user, fragOf)
    \/ \E r \in 1..MaxInflight, ownerId \in Users :
          \E recipient \in LookupUser(ownerId) :
              PostGiveAFrag_BadRecipient(r, ownerId, recipient)

SpecEdit == InitKids /\ [][NextEdit]_vars

\* ------------------------------------------------------------ read routes

\* isFan: SELECT_FAN finds the row.
isFan(fn, userId, motherId) == <<motherId, userId>> \in fn

\* SELECT_FRAGS_FOR_MOTHER: the frags of the mother, each joined with it.
\* The routes below do not depend on the order of the rows.
selectFragsForMother(ms, fs, js, motherId) ==
    {selectFrag(ms, fs, js, f).frag :
        f \in {g \in DOMAIN fs : motherId \in DOMAIN ms /\ fs[g].motherId = motherId}}

\* GET /frag/:fragId without the check on 'private'.
GetFrag_Select_Exposed ==
    \E user \in Users, fragId \in FragIds, r \in 1..MaxInflight :
        /\ running.pc = "idle"
        /\ SELECT_A_FRAG(mothers, frags, fragId) # {}
        /\ inflight[r].pc = "free"
        /\ \A q \in 1..(r - 1) : inflight[q].pc # "free"
        /\ LET s == selectFrag(mothers, frags, journals, fragId)
           IN  inflight' = [inflight EXCEPT ![r] =
                  [pc |-> "frag", user |-> user, frag |-> s.frag,
                   journals |-> s.journals]]
        /\ reply' = NoReply
        /\ UNCHANGED <<mothers, frags, journals, fans, shares, running, hist>>

\* GET /frag/:fragId: db.selectFrag finds a frag that is not private or is
\* the caller's; the handler awaits lookupUser(frag.ownerId, true).
GetFrag_Select ==
    \E user \in Users, fragId \in FragIds, r \in 1..MaxInflight :
        /\ running.pc = "idle"
        /\ SELECT_A_FRAG(mothers, frags, fragId) # {}
        /\ ~(mothers[frags[fragId].motherId].rules = "private"
             /\ user # frags[fragId].ownerId)
        /\ inflight[r].pc = "free"
        /\ \A q \in 1..(r - 1) : inflight[q].pc # "free"
        /\ LET s == selectFrag(mothers, frags, journals, fragId)
           IN  inflight' = [inflight EXCEPT ![r] =
                  [pc |-> "frag", user |-> user, frag |-> s.frag,
                   journals |-> s.journals]]
        /\ reply' = NoReply
        /\ UNCHANGED <<mothers, frags, journals, fans, shares, running, hist>>

\* GET /frag/:fragId: no frag, or a private frag of someone else:
\* INVALID_FRAG.
GetFrag_Reject ==
    \E user \in Users, fragId \in FragIds :
        /\ running.pc = "idle"
        /\ \/ SELECT_A_FRAG(mothers, frags, fragId) = {}
           \/ /\ SELECT_A_FRAG(mothers, frags, fragId) # {}
              /\ mothers[frags[fragId].motherId].rules = "private"
              /\ user # frags[fragId].ownerId
        /\ reply' = [code |-> "INVALID_FRAG"]
        /\ UNCHANGED <<mothers, frags, journals, fans, shares, inflight, running, hist>>

\* GET /frag/:fragId after the await: frag.ownsIt, frag.isFan as the fans
\* table has it now, res.json({user, frag, journals}).
GetFrag_Reply ==
    \E r \in 1..MaxInflight :
        /\ running.pc = "idle"
        /\ inflight[r].pc = "frag"
        /\ reply' = [code |-> "ok", route |-> "frag", user |-> inflight[r].user,
                     frags |-> {inflight[r].frag},
                     journals |-> Range(inflight[r].journals),
                     isFan |-> isFan(fans, inflight[r].user, inflight[r].frag.motherId)]
        /\ inflight' = [inflight EXCEPT ![r] = Free]
        /\ UNCHANGED <<mothers, frags, journals, fans, shares, running, hist>>

\* GET /journals/:fragId: no frag, or a private frag of someone else:
\* INVALID_FRAG.
GetJournals_Reject ==
    \E user \in Users, fragId \in FragIds :
        /\ running.pc = "idle"
        /\ \/ SELECT_A_FRAG(mothers, frags, fragId) = {}
           \/ /\ SELECT_A_FRAG(mothers, frags, fragId) # {}
              /\ mothers[frags[fragId].motherId].rules = "private"
              /\ user # frags[fragId].ownerId
        /\ reply' = [code |-> "INVALID_FRAG"]
        /\ UNCHANGED <<mothers, frags, journals, fans, shares, inflight, running, hist>>

\* GET /journals/:fragId: res.json({journals}).
GetJournals_Get ==
    \E user \in Users, fragId \in FragIds :
        /\ running.pc = "idle"
        /\ SELECT_A_FRAG(mothers, frags, fragId) # {}
        /\ ~(mothers[frags[fragId].motherId].rules = "private"
             /\ user # frags[fragId].ownerId)
        /\ reply' = [code |-> "ok", route |-> "journals", user |-> user,
                     frags |-> {},
                     journals |-> Range(selectFrag(mothers, frags, journals, fragId).journals)]
        /\ UNCHANGED <<mothers, frags, journals, fans, shares, inflight, running, hist>>

\* The mother ids a request can name: those of the table and one more.
MotherIdInputs == 1..(MaxRows - 1)

\* GET /kids/:motherId: some frag of the mother is private: NOT_YOURS.
Kids_Reject ==
    \E user \in Users, motherId \in MotherIdInputs :
        /\ running.pc = "idle"
        /\ \E f \in selectFragsForMother(mothers, frags, journals, motherId) :
              f.rules = "private"
        /\ reply' = [code |-> "NOT_YOURS"]
        /\ UNCHANGED <<mothers, frags, journals, fans, shares, inflight, running, hist>>

\* GET /kids/:motherId: res.json({user, frags}).  After the select the
\* handler only awaits lookupUser for each row and reads nothing more of
\* the database, so the reply is the one of the select.
Kids_Get ==
    \E user \in Users, motherId \in MotherIdInputs :
        /\ running.pc = "idle"
        /\ \A f \in selectFragsForMother(mothers, frags, journals, motherId) :
              f.rules # "private"
        /\ reply' = [code |-> "ok", route |-> "kids", user |-> user,
                     frags |-> selectFragsForMother(mothers, frags, journals, motherId),
                     journals |-> {}]
        /\ UNCHANGED <<mothers, frags, journals, fans, shares, inflight, running, hist>>

\* GET /tree/:motherId: no frag of that mother: INVALID_FRAG; a private
\* frag of someone else among them: NOT_YOURS.
Tree_Reject ==
    \E user \in Users, motherId \in MotherIdInputs :
        /\ running.pc = "idle"
        /\ LET rows == selectFragsForMother(mothers, frags, journals, motherId)
           IN  IF rows = {}
               THEN reply' = [code |-> "INVALID_FRAG"]
               ELSE /\ \E f \in rows : f.rules = "private" /\ f.ownerId # user
                    /\ reply' = [code |-> "NOT_YOURS"]
        /\ UNCHANGED <<mothers, frags, journals, fans, shares, inflight, running, hist>>

\* GET /tree/:motherId: the rows are linked into a tree by fragOf and the
\* root is sent.  A row whose parent is not among the rows makes
\* "parent.children" throw, and so does a set of rows with no root.  After
\* the select nothing more is read of the database.
Tree_Get ==
    \E user \in Users, motherId \in MotherIdInputs :
        /\ running.pc = "idle"
        /\ LET rows == selectFragsForMother(mothers, frags, journals, motherId)
               ids == {f.fragId : f \in rows}
           IN  /\ rows # {}
               /\ \A f \in rows : ~(f.rules = "private" /\ f.ownerId # user)
               /\ IF \/ \E f \in rows : f.fragOf # NULL /\ f.fragOf \notin ids
                     \/ \A f \in rows : f.fragOf # NULL
                  THEN reply' = [code |-> "error"]
                  ELSE reply' = [code |-> "ok", route |-> "tree", user |-> user,
                                 frags |-> rows, journals |-> {}]
        /\ UNCHANGED <<mothers, frags, journals, fans, shares, inflight, running, hist>>

\* A ledger after: user 1 adds a 'dbtc' item (mother 1, frag 1), user 2 adds
\* a 'private' item (mother 2, frag 2), user 1 gives a frag of frag 1 to
\* user 2 (frag 3), user 2 gives a frag of frag 3 to user 1 with
\* body.motherId 1 or 2 (frag 4).
InitRead ==
    /\ mothers = <<[timestamp |-> FirstTime, name |-> FirstName,
                    type |-> FirstType, rules |-> "dbtc"],
                   [timestamp |-> FirstTime, name |-> FirstName,
                    type |-> FirstType, rules |-> "private"]>>
    /\ \E motherId \in {1, 2} :
          frags = <<[motherId |-> 1, ownerId |-> 1, fragOf |-> NULL,
                     fragsAvailable |-> 0, isAlive |-> 1, status |-> NULLSTATUS,
                     picture |-> NULLSTATUS, notes |-> NULLSTATUS],
                    [motherId |-> 2, ownerId |-> 2, fragOf |-> NULL,
                     fragsAvailable |-> 0, isAlive |-> 1, status |-> NULLSTATUS,
                     picture |-> NULLSTATUS, notes |-> NULLSTATUS],
                    [motherId |-> 1, ownerId |-> 2, fragOf |-> 1,
                     fragsAvailable |-> 0, isAlive |-> 1, status |-> NULLSTATUS,
                     picture |-> NULLSTATUS, notes |-> NULLSTATUS],
                    [motherId |-> motherId, ownerId |-> 1, fragOf |-> 3,
                     fragsAvailable |-> 0, isAlive |-> 1, status |-> NULLSTATUS,
                     picture |-> NULLSTATUS, notes |-> NULLSTATUS]>>
    /\ journals = <<[fragId |-> 1, entryType |-> "acquired"],
                    [fragId |-> 2, entryType |-> "acquired"],
                    [fragId |-> 3, entryType |-> "acquired"],
                    [fragId |-> 1, entryType |-> "gave"],
                    [fragId |-> 4, entryType |-> "acquired"],
                    [fragId |-> 3, entryType |-> "gave"]>>
    /\ fans = {}
    /\ shares = <<>>
    /\ inflight = [r \in 1..MaxInflight |-> Free]
    /\ running = Idle
    /\ reply = NoReply
    /\ hist = [base |-> <<1, 0, 0, 0>>, splits |-> <<1, 0, 1, 0>>,
               clean |-> <<FALSE, FALSE>>, fetch |-> NoFetch]

NextRead ==
    \/ \E user \in Users, fragId \in FragIds :
          Journal_Add(user, fragId)
    \/ Journal_Picture
    \/ GetFrag_Reject
    \/ GetFrag_Select
    \/ GetFrag_Reply
    \/ GetJournals_Reject
    \/ GetJournals_Get
    \/ Kids_Reject
    \/ Kids_Get
    \/ Tree_Reject
    \/ Tree_Get
    \/ Collection_Reject
    \/ \E user \in Users, rules \in Rules :
          Collection_Get(user, rules, 1, NULL_FILTERS)

SpecRead == InitRead /\ [][NextRead]_vars

\* The update and rip routes over the ledger of InitRead, with its two
\* mothers.
NextUpdate ==
    \/ \E user \in Users, fragId \in FragIds :
          Update_Reject(user, fragId)
    \/ \E user \in Users, fragId \in FragIds :
          Update_Mother(user, fragId)
    \/ Update_Frag
    \/ Update_Journal
    \/ \E user \in Users, fragId \in FragIds :
          Rip_Reject(user, fragId)
    \/ \E user \in Users, fragId \in FragIds :
          Rip_MarkAsDead(user, fragId)
    \/ Rip_Journal

SpecUpdate == InitRead /\ [][NextUpdate]_vars

\* ------------------------------------------------------------ properties

Roots(m) == {f \in DOMAIN frags : frags[f].motherId = m /\ frags[f].fragOf = NULL}

Children(f) == {c \in DOMAIN frags : frags[c].fragOf = f}

\* The step in which a give-a-frag handler commits db.giveAFrag.
GiveCommitted == running.pc = "idle" /\ running'.pc = "giveJournalRecipient"

\* The waiting request r leaves its await in this step.
Resumed(r) == inflight[r].pc = "lookup" /\ inflight'[r].pc = "free"

\* C1: in every reachable state every frag has fragsAvailable >= 0, also
\* when add-new-item passes a negative initial counter to insertItem.
C1_NonNegative ==
    \A f \in DOMAIN frags : frags[f].fragsAvailable >= 0

\* C2: a live frag whose counter was N >= 0 holds N - k after k <= N
\* splits in a row, and each split returns the counter it left behind.
C2_SequentialSplits ==
    /\ \A f \in DOMAIN frags :
          (/\ frags[f].isAlive = 1
           /\ hist.base[f] >= 0
           /\ hist.splits[f] <= hist.base[f])
             => frags[f].fragsAvailable = hist.base[f] - hist.splits[f]
    /\ (running.pc = "giveJournalRecipient" /\ ~running.transfer)
          => running.fragsAvailable = frags[running.fragOf].fragsAvailable

C2_Witness ==
    \E f \in DOMAIN frags :
        /\ frags[f].isAlive = 1
        /\ hist.base[f] = 3
        /\ hist.splits[f] = 2
        /\ running.pc = "giveJournalRecipient"
        /\ running.fragOf = f
        /\ ~running.transfer

\* C3: of two concurrent splits of a source whose counter is 1, the one
\* that writes second (it validated the counter at 1, the other split has
\* taken it to 0 since) creates no child and leaves the counter at 0.
C3_StaleSplitDoesNotAct ==
    [][\A r \in 1..MaxInflight :
          (/\ Resumed(r)
           /\ GiveCommitted
           /\ ~running'.transfer
           /\ inflight[r].seen = 1
           /\ frags[inflight[r].fragOf].isAlive = 1
           /\ hist.base[inflight[r].fragOf] = 1
           /\ hist.splits[inflight[r].fragOf] = 1
           /\ frags[inflight[r].fragOf].fragsAvailable = 0)
             => /\ Len(frags') = Len(frags)
                /\ frags'[inflight[r].fragOf].fragsAvailable = 0]_vars

\* C4: a transfer by the source's owner leaves the source dead, with
\* counter 0 and status 'transferred', and inserts exactly one frag, alive.
C4_TransferKillsSource ==
    [][(GiveCommitted /\ running'.transfer)
          => /\ Len(frags') = Len(frags) + 1
             /\ frags'[Len(frags')].isAlive = 1
             /\ frags'[Len(frags')].fragOf = running'.fragOf
             /\ frags'[running'.fragOf].isAlive = 0
             /\ frags'[running'.fragOf].fragsAvailable = 0
             /\ frags'[running'.fragOf].status = "transferred"
             /\ \A f \in DOMAIN frags :
                   f # running'.fragOf => frags'[f] = frags[f]]_vars

C4_Witness ==
    /\ running.pc = "giveJournalRecipient"
    /\ running.transfer
    /\ hist.base[running.fragOf] - hist.splits[running.fragOf] = 2
    /\ frags[running.fragOf].status = "transferred"

\* C5: every giveAFrag inserts exactly one frag: alive, counter 0, owned by
\* values.ownerId, child of values.fragOf; a split leaves the source's
\* liveness and owner as they were.
C5_GiveInsertsOneChild ==
    [][GiveCommitted
          => /\ Len(frags') = Len(frags) + 1
             /\ running'.fragId = Len(frags')
             /\ frags'[running'.fragId].isAlive = 1
             /\ frags'[running'.fragId].fragsAvailable = 0
             /\ frags'[running'.fragId].ownerId = running'.recipient
             /\ frags'[running'.fragId].fragOf = running'.fragOf
             /\ ~running'.transfer
                   => /\ frags'[running'.fragOf].isAlive = frags[running'.fragOf].isAlive
                      /\ frags'[running'.fragOf].ownerId = frags[running'.fragOf].ownerId]_vars

C5_Witness ==
    /\ running.pc = "giveJournalRecipient"
    /\ ~running.transfer
    /\ frags[running.fragOf].isAlive = 1
    /\ frags[running.fragId].fragOf = running.fragOf
    /\ frags[running.fragId].ownerId # frags[running.fragOf].ownerId

\* C6: every mother has exactly one frag with fragOf = NULL.
C6_OneRoot ==
    \A m \in DOMAIN mothers : Cardinality(Roots(m)) = 1

C6_Witness ==
    /\ Len(mothers) = 2
    /\ \E f \in DOMAIN frags : frags[f].fragOf # NULL
    /\ \E f \in DOMAIN frags : frags[f].status = "transferred"

\* C7: every non-root frag's parent exists, was inserted before it and
\* belongs to the same mother, whatever motherId and fragOf a give-a-frag
\* body carries.
C7_Tree ==
    \A f \in DOMAIN frags :
        frags[f].fragOf # NULL
          => /\ frags[f].fragOf \in DOMAIN frags
             /\ frags[f].fragOf < f
             /\ frags[frags[f].fragOf].motherId = frags[f].motherId

\* C8: after insertItem with counter 3 and then three splits from the
\* root, the root's counter is 0 and the mother has exactly 4 live frags.
C8_ThreeSplits ==
    \A m \in DOMAIN mothers : \A root \in Roots(m) :
        (hist.clean[m] /\ hist.base[root] = 3 /\ hist.splits[root] = 3)
          => /\ frags[root].fragsAvailable = 0
             /\ Cardinality({f \in DOMAIN frags :
                                frags[f].motherId = m /\ frags[f].isAlive = 1}) = 4
             /\ frags[root].isAlive = 1
             /\ Cardinality(Children(root)) = 3

C8_Witness ==
    \E m \in DOMAIN mothers : \E root \in Roots(m) :
        /\ hist.clean[m]
        /\ hist.base[root] = 3
        /\ hist.splits[root] = 3
        /\ running.pc = "idle"

\* C9: a split requested on a frag whose counter is 0 is rejected: no
\* split that validateFrag admitted at counter 0 reaches db.giveAFrag.
C9_ZeroCounterSplitRejected ==
    [][\A r \in 1..MaxInflight :
          (Resumed(r) /\ GiveCommitted /\ ~running'.transfer)
             => inflight[r].seen > 0]_vars

\* C10: no reader sees a partial effect: every frag in the table has its
\* 'acquired' journal row, every transferred source has its child, and
\* every committed split of a source has a child of it.
C10_NoPartialEffect ==
    /\ \A f \in DOMAIN frags :
          \E j \in DOMAIN journals :
              journals[j].fragId = f /\ journals[j].entryType = "acquired"
    /\ \A f \in DOMAIN frags :
          /\ frags[f].status = "transferred" => Children(f) # {}
          /\ hist.splits[f] <= Cardinality(Children(f))

\* C11: a call is all-or-nothing: when a step of add-new-item, rip or
\* give-a-frag fails after the call has written, none of the call's writes
\* is left: the item (mother and root) is gone, the ripped frag is alive
\* again, the child of the give is gone.
C11_AllOrNothing ==
    [][(running.pc # "idle" /\ running'.pc = "idle" /\ reply'.code = "error")
          => /\ running.pc = "addItemJournal"
                   => /\ Len(frags') = running.fragId - 1
                      /\ Len(mothers') = Len(mothers) - 1
             /\ running.pc = "ripJournal"
                   => frags'[running.fragId].isAlive = 1
             /\ running.pc \in {"giveJournalRecipient", "giveJournalGiver"}
                   => Len(frags') = running.fragId - 1]_vars

\* The step in which an import makes its first write (db.insertItem).
ImportBegins == running.pc = "idle" /\ running'.pc = "importAcquired"

\* The frags of mother m.
FragsOf(m) == {f \in DOMAIN frags : frags[f].motherId = m}

\* The frags of mother m that user u owns.
Holdings(m, u) == {f \in FragsOf(m) : frags[f].ownerId = u}

\* C12: a log with an entry that has no date, no usable source identity,
\* no usable target identity for 'gave'/'trans', or a type other than
\* gave, trans and rip never gets to a write: no import begins with such a
\* log, and the step that answers INVALID_IMPORT leaves mothers, frags and
\* journals as they were.
C12_InvalidImportWritesNothing ==
    [][/\ ImportBegins
             => \A i \in DOMAIN running'.transactions :
                   LET t == running'.transactions[i]
                   IN  /\ t.date
                       /\ t.from /\ t.fromId \in ImportIds
                       /\ t.type \in {"gave", "trans", "rip"}
                       /\ t.type \in {"gave", "trans"}
                             => t.to /\ t.toId \in ImportIds
       /\ reply'.code = "INVALID_IMPORT"
             => /\ running.pc = "idle" /\ running'.pc = "idle"
                /\ UNCHANGED <<mothers, frags, journals>>]_vars

C12_Witness ==
    /\ reply.code = "INVALID_IMPORT"
    /\ running.pc = "idle"
    /\ Len(mothers) = 1
    /\ Len(journals) = 2

\* The log replayed so far is [gave A->B, trans B->C, rip C] with A the
\* importer and A, B, C three users.
Scenario13 ==
    /\ Replayed
    /\ Len(hist.log) = 3
    /\ hist.log[1].type = "gave" /\ hist.log[1].fromId = running.user
    /\ hist.log[2].type = "trans" /\ hist.log[2].fromId = hist.log[1].toId
    /\ hist.log[3].type = "rip" /\ hist.log[3].fromId = hist.log[2].toId
    /\ Cardinality({running.user, hist.log[1].toId, hist.log[2].toId}) = 3

\* C13: after the import of [gave A->B, trans B->C, rip C] by A, C's frag
\* is dead and has no child, B has no entry in the map and B's frag is dead
\* with status 'transferred', and A's root is alive.
C13_GaveTransRip ==
    Scenario13
      => LET m == running.motherId
             B == hist.log[1].toId
             C == hist.log[2].toId
         IN  /\ Cardinality(Holdings(m, B)) = 1
             /\ Cardinality(Holdings(m, C)) = 1
             /\ \A c \in Holdings(m, C) :
                   frags[c].isAlive = 0 /\ Children(c) = {}
             /\ running.fragMap[B] = 0
             /\ \A b \in Holdings(m, B) :
                   frags[b].isAlive = 0 /\ frags[b].status = "transferred"
             /\ frags[running.fragId].isAlive = 1
             /\ frags[running.fragId].ownerId = running.user

C13_Witness ==
    /\ Scenario13
    /\ Len(frags) = 3
    /\ frags[3].fragOf = 2

\* The entry forEach is at names a source without an entry in the map.
AtUnmapped == AtEntry /\ running.fragMap[Head(running.transactions).fromId] = 0

\* C14: an entry whose source has no entry in the map is skipped: the step
\* writes nothing, leaves the map as it is, and forEach is then at the next
\* entry of the log, the rest of the log unchanged.
C14_UnmappedSourceSkipped ==
    [][AtUnmapped
          => /\ UNCHANGED <<mothers, frags, journals>>
             /\ running'.fragMap = running.fragMap
             /\ running'.pc = "importReplay"
             /\ running'.transactions = Tail(running.transactions)]_vars

C14_Witness ==
    /\ running.pc = "importReplay"
    /\ Len(hist.log) = 3
    /\ hist.log[1].held # 0
    /\ hist.log[2].held = 0
    /\ hist.log[3].made # 0

\* The keys of the map that have an entry.
Mapped(fragMap) == {h \in DOMAIN fragMap : fragMap[h] # 0}

\* The step in which the entry forEach is at, a mapped one, acts on the map.
EntryActs ==
    /\ AtEntry /\ ~AtUnmapped
    /\ running'.pc \in {"importGaveAcquired", "importTransAcquired",
                        "importRipJournal"}

\* C15: a replayed (not skipped) entry changes the map so: 'gave' puts the
\* new frag at toId and fromId keeps an entry; 'trans' puts the new frag at
\* toId and fromId has no entry; 'rip' leaves fromId without an entry; no
\* other key changes, and no other step of the import changes the map.
C15_MapEvolution ==
    [][/\ EntryActs
             => LET t == Head(running.transactions)
                    old == running.fragMap
                    new == running'.fragMap
                IN  /\ t.type = "gave"
                          => /\ new[t.toId] = Len(frags')
                             /\ Len(frags') = Len(frags) + 1
                             /\ t.fromId \in Mapped(new)
                             /\ \A h \in DOMAIN old : h # t.toId => new[h] = old[h]
                    /\ t.type = "trans"
                          => /\ new[t.toId] = Len(frags')
                             /\ Len(frags') = Len(frags) + 1
                             /\ t.fromId \notin Mapped(new)
                             /\ \A h \in DOMAIN old :
                                   h \notin {t.toId, t.fromId} => new[h] = old[h]
                    /\ t.type = "rip"
                          => /\ t.fromId \notin Mapped(new)
                             /\ \A h \in DOMAIN old : h # t.fromId => new[h] = old[h]
       /\ (running.pc \notin {"idle", "importReplay"} /\ running'.pc # "idle")
             => running'.fragMap = running.fragMap]_vars

\* The last step of a replayed 'trans' entry.
TransDone == running.pc = "importTransDead" /\ running'.pc = "importReplay"

\* C16: a replayed 'trans' entry leaves the frags table as the transfer of
\* give-a-frag would have left it from the state the entry began in: one
\* new live child of the source owned by toId, the source dead with
\* counter 0 and status 'transferred', every other frag as it was.
C16_ImportTransIsTransfer ==
    [][TransDone
          => LET t == Head(running.transactions)
                 src == running.fromFragId
                 new == running.toFragId
                 transfer == [ImportValues(running.motherId, t, src)
                                 EXCEPT !.transfer = TRUE]
             IN  /\ frags' = giveAFrag(hist.entry.frags, t.fromId, transfer).frags
                 /\ Len(frags') = Len(hist.entry.frags) + 1
                 /\ new = Len(frags')
                 /\ frags'[new].isAlive = 1
                 /\ frags'[new].ownerId = t.toId
                 /\ frags'[new].fragOf = src
                 /\ frags'[src].isAlive = 0
                 /\ frags'[src].fragsAvailable = 0
                 /\ frags'[src].status = "transferred"]_vars

C16_Witness ==
    /\ running.pc = "importReplay"
    /\ Len(hist.log) = 2
    /\ hist.log[2].type = "trans"
    /\ hist.log[2].made = 3
    /\ frags[hist.log[2].held].status = "transferred"
    /\ hist.log[2].held = 2

\* The entries of the log that made a frag: the 'gave' and 'trans' entries
\* that were not skipped.
Made == {k \in DOMAIN hist.log : hist.log[k].made # 0}

\* C17: after the replay the frags of the new mother are the root and one
\* child for each 'gave'/'trans' entry that was not skipped, owned by the
\* entry's toId, its parent the frag fromId held when the entry was
\* replayed; and a frag is dead exactly when a 'trans' or 'rip' entry that
\* was not skipped had it as the holding of its source.
C17_LineageMirrorsLog ==
    Replayed
      => LET log == hist.log
             F == FragsOf(running.motherId)
         IN  /\ \A k \in DOMAIN log :
                   k \in Made <=> (log[k].held # 0 /\ log[k].type \in {"gave", "trans"})
             /\ F = {running.fragId} \cup {log[k].made : k \in Made}
             /\ Cardinality(F) = 1 + Cardinality(Made)
             /\ frags[running.fragId].fragOf = NULL
             /\ frags[running.fragId].ownerId = running.user
             /\ \A k \in Made :
                   /\ frags[log[k].made].ownerId = log[k].toId
                   /\ frags[log[k].made].fragOf = log[k].held
                   /\ log[k].held \in F
                   /\ frags[log[k].held].ownerId = log[k].fromId
             /\ \A f \in F :
                   frags[f].isAlive = 0
                      <=> \E k \in DOMAIN log :
                             log[k].held = f /\ log[k].type \in {"trans", "rip"}

C17_Witness ==
    /\ Replayed
    /\ Len(hist.log) = 3
    /\ hist.log[1].type = "gave" /\ hist.log[1].made # 0
    /\ hist.log[2].type = "gave" /\ hist.log[2].made # 0
    /\ hist.log[2].toId = hist.log[1].toId
    /\ hist.log[3].type = "rip" /\ hist.log[3].fromId = hist.log[1].toId
    /\ frags[hist.log[1].made].isAlive = 1
    /\ frags[hist.log[2].made].isAlive = 0

\* The step that ends a replayed entry.
EntryDone ==
    /\ running.pc \in {"importGaveGave", "importTransDead", "importRipJournal"}
    /\ running'.pc = "importReplay"

\* C18: a replayed 'gave' or 'trans' entry appends an 'acquired' row on
\* the new frag and a 'gave' row on the source frag and nothing else, a
\* replayed 'rip' entry one 'rip' row on the source frag; a skipped entry
\* appends nothing.
C18_ImportJournals ==
    [][/\ EntryDone
             => LET e == hist.log[Len(hist.log)]
                    before == hist.entry.journals
                IN  /\ e.type \in {"gave", "trans"}
                          => /\ e.made = Len(hist.entry.frags) + 1
                             /\ frags'[e.made].fragOf = e.held
                             /\ journals' = before \o
                                   <<[fragId |-> e.made, entryType |-> "acquired"],
                                     [fragId |-> e.held, entryType |-> "gave"]>>
                    /\ e.type = "rip"
                          => journals' = before \o
                                   <<[fragId |-> e.held, entryType |-> "rip"]>>
       /\ AtUnmapped => journals' = journals]_vars

C18_Witness ==
    /\ running.pc = "importReplay"
    /\ Len(hist.log) = 3
    /\ hist.log[1].type = "trans" /\ hist.log[1].made # 0
    /\ hist.log[2].held = 0
    /\ hist.log[3].type = "rip" /\ hist.log[3].held # 0
    /\ Len(journals) = 5

\* The waiting share request r runs db.shareFrag in this step.
ShareCalled(r) == inflight[r].pc = "share" /\ inflight'[r].pc = "free"

\* The hash of what the waiting share request r shares.
HashOf(r) == sha256(JSON_stringify(inflight[r].frag, inflight[r].journals))

\* C19: shareFrag on a content that was shared before returns the share id
\* it returned then and writes nothing, whatever was shared in between, so
\* the table never holds two snapshots with one hash; on a new content it
\* returns the id of the one snapshot it adds.
C19_ShareIdempotent ==
    /\ [](\A i, j \in DOMAIN shares : shares[i].hash = shares[j].hash => i = j)
    /\ [][\A r \in 1..MaxInflight :
             (ShareCalled(r) /\ reply'.code = "ok")
                => IF \E i \in DOMAIN shares : shares[i].hash = HashOf(r)
                   THEN /\ shares' = shares
                        /\ \E i \in DOMAIN shares :
                              /\ shares[i].hash = HashOf(r)
                              /\ reply'.shareId = shares[i].shareId
                   ELSE /\ Len(shares') = Len(shares) + 1
                        /\ shares'[Len(shares')].hash = HashOf(r)
                        /\ shares'[Len(shares')].shareId = reply'.shareId]_vars

C19_Witness ==
    /\ Len(shares) = 2
    /\ reply.code = "ok"
    /\ reply.shareId = shares[1].shareId
    /\ shares[1].shareId # shares[2].shareId

\* C20: a snapshot, once in the table, stays as it is: every step leaves
\* every existing row of shares (shareId, hash, json) unchanged.
C20_SnapshotsImmutable ==
    [][\A i \in DOMAIN shares :
          i \in DOMAIN shares' /\ shares'[i] = shares[i]]_vars

C20_Witness ==
    /\ Len(shares) = 2
    /\ shares[1].json[2].row.isAlive = 1
    /\ frags[shares[1].json[2].row.fragId].isAlive = 0
    /\ Len(journals) > Len(shares[2].json[4])
    /\ reply.code = "error"

\* The mothers of the rows of the pages 1..p of c, in order.
RECURSIVE Concatenated(_, _)
Concatenated(c, p) ==
    IF p = 0 THEN <<>>
    ELSE Concatenated(c, p - 1) \o [i \in DOMAIN c[p] |-> c[p][i].motherId]

\* C21: for a fixed ledger and fixed filters, the pages 1, 2, 3, ... of
\* selectCollectionPaged (c: one result for each page) put together hold
\* every mother that matches the rules and the filters exactly once, latest
\* timestamp first, also when mothers share a timestamp.
C21_PagesHoldEachMotherOnce ==
    \A userId \in Users, filters \in Filters :
        \A c \in {d \in [Pages -> UNION {selectCollectionPaged(mothers, frags, fans, userId,
                                                                "dbtc", p, filters) :
                                              p \in Pages}] :
                     \A p \in Pages :
                         d[p] \in selectCollectionPaged(mothers, frags, fans, userId,
                                                        "dbtc", p, filters)} :
            LET all == Concatenated(c, MaxRows \div 2 + 1)
                matching == WHERE_COLLECTION(mothers, frags, "dbtc", filters)
            IN  /\ \A m \in matching : Cardinality({i \in DOMAIN all : all[i] = m}) = 1
                /\ \A i \in DOMAIN all : all[i] \in matching
                /\ \A i \in 1..(Len(all) - 1) :
                       mothers[all[i]].timestamp >= mothers[all[i + 1]].timestamp

\* C22: in every row selectCollectionPaged returns, otherFragsAvailable is
\* the sum of fragsAvailable over the live non-root frags of the row's
\* mother, whatever the number of its children and of its fans.
C22_OtherFragsAvailableIsSum ==
    \A userId \in Users, page \in Pages, filters \in Filters :
        \A rows \in selectCollectionPaged(mothers, frags, fans, userId, "dbtc", page, filters) :
            \A i \in DOMAIN rows :
                rows[i].otherFragsAvailable =
                    SumAvailable(frags, {f \in DOMAIN frags :
                                            /\ frags[f].motherId = rows[i].motherId
                                            /\ frags[f].fragOf # NULL
                                            /\ frags[f].isAlive = 1})

\* C23: when a matching mother is inserted between the fetch of page p and
\* the fetch of page p + 1 of the same request by the same client, no mother is on both pages, and no mother that
\* matched before the insert is passed over (left out of both pages while
\* older than page p and newer than a row of page p + 1).  Stated for
\* mothers of pairwise distinct timestamps, whose order is determined.
C23_StableUnderInserts ==
    [][(/\ hist'.fetch # hist.fetch
        /\ hist.fetch.page >= 1
        /\ hist'.fetch.page = hist.fetch.page + 1
        /\ hist'.fetch.user = hist.fetch.user
        /\ hist'.fetch.rules = hist.fetch.rules
        /\ hist'.fetch.filters = hist.fetch.filters
        /\ \E m \in WHERE_COLLECTION(mothers, frags, hist.fetch.rules, hist.fetch.filters) :
              m > hist.fetch.count
        /\ \A a, b \in DOMAIN mothers :
              a # b => mothers[a].timestamp # mothers[b].timestamp)
       => /\ Range(hist.fetch.ids) \cap Range(hist'.fetch.ids) = {}
          /\ \A m \in WHERE_COLLECTION(mothers, frags, hist.fetch.rules, hist.fetch.filters) :
                (/\ m <= hist.fetch.count
                 /\ m \notin Range(hist.fetch.ids) \cup Range(hist'.fetch.ids)
                 /\ \A x \in Range(hist.fetch.ids) :
                       mothers[m].timestamp < mothers[x].timestamp)
                => \A x \in Range(hist'.fetch.ids) :
                       mothers[m].timestamp < mothers[x].timestamp]_vars

\* The step is a call markAsDead(ownerId, fragId, status) of the import
\* replay: the one of a 'trans' entry, or the one of a 'rip' entry, which
\* leaves the status out.
MarkAsDeadCalled(ownerId, fragId, status) ==
    \/ /\ TransDone
       /\ ownerId = Head(running.transactions).fromId
       /\ fragId = running.fromFragId
       /\ status = "transferred"
    \/ /\ AtEntry
       /\ running'.pc = "importRipJournal"
       /\ ownerId = Head(running.transactions).fromId
       /\ fragId = running'.fromFragId
       /\ status = NULLSTATUS

C25_UpdateFragsAvailable ==
    \A ownerId \in Users, fragId \in FragIds, v \in (0 - 1)..MaxAvail :
        LET u == updateFragsAvailable(frags, ownerId, fragId, v)
        IN  IF fragId \in DOMAIN frags /\ frags[fragId].ownerId = ownerId
            THEN /\ u.ok
                 /\ u.frags[fragId].fragsAvailable = Max(v, 0)
                 /\ u.result = Max(v, 0)
                 /\ u.frags = [frags EXCEPT ![fragId].fragsAvailable = Max(v, 0)]
            ELSE /\ ~u.ok
                 /\ u.frags = frags

\* The PUT route has just called updateFragsAvailable on a frag of a mother
\* with two frags of different owners, and holds the value it returned.
C25_Witness ==
    /\ running.pc = "availableJournal"
    /\ running.fragsAvailable = frags[running.fragId].fragsAvailable
    /\ running.fragsAvailable = 1
    /\ \E g \in DOMAIN frags : frags[g].ownerId # running.user

\* The four ledger tables.
Ledger == <<mothers, frags, journals, fans>>

\* The outcome the five mutation routes give a request they turn down for
\* its frag.
InvalidFragOutcome ==
    /\ reply'.code = "INVALID_FRAG"
    /\ UNCHANGED Ledger

\* C26: when a request of user on fragId arrives and the frag does not
\* exist, is not owned by user or is not alive, each of the five mutation
\* routes (update, set available, give, add journal, rip) can answer it only
\* with INVALID_FRAG and the ledger unchanged, whichever of the three is the
\* reason, and none of them starts its work on the frag.
C26_InvalidFragRejected ==
    running.pc = "idle" =>
        \A user \in Users, fragId \in FragIds :
            (\/ fragId \notin DOMAIN frags
             \/ frags[fragId].ownerId # user
             \/ frags[fragId].isAlive # 1) =>
                /\ ENABLED (Update_Reject(user, fragId) /\ InvalidFragOutcome)
                /\ ~ENABLED (Update_Reject(user, fragId) /\ ~InvalidFragOutcome)
                /\ ~ENABLED Update_Mother(user, fragId)
                /\ ~ENABLED Update_FragOf(user, fragId)
                /\ ENABLED (PutAvailable_Reject(user, fragId) /\ InvalidFragOutcome)
                /\ ~ENABLED (PutAvailable_Reject(user, fragId) /\ ~InvalidFragOutcome)
                /\ ~ENABLED PutAvailable_Update(user, fragId)
                /\ ENABLED (PostGiveAFrag_Reject(user, fragId) /\ InvalidFragOutcome)
                /\ ~ENABLED (PostGiveAFrag_Reject(user, fragId) /\ ~InvalidFragOutcome)
                /\ ~ENABLED PostGiveAFrag_Validate(user, fragId)
                /\ ENABLED (Journal_Reject(user, fragId) /\ InvalidFragOutcome)
                /\ ~ENABLED (Journal_Reject(user, fragId) /\ ~InvalidFragOutcome)
                /\ ~ENABLED Journal_Add(user, fragId)
                /\ ENABLED (Rip_Reject(user, fragId) /\ InvalidFragOutcome)
                /\ ~ENABLED (Rip_Reject(user, fragId) /\ ~InvalidFragOutcome)
                /\ ~ENABLED Rip_MarkAsDead(user, fragId)

\* A request has been answered with INVALID_FRAG while the ledger holds a
\* dead frag of one user, a live frag of the other and ids of no frag.
C26_Witness ==
    /\ running.pc = "idle"
    /\ reply.code = "INVALID_FRAG"
    /\ \E f \in DOMAIN frags : frags[f].isAlive = 0
    /\ \E f \in DOMAIN frags, user \in Users :
          frags[f].isAlive = 1 /\ frags[f].ownerId # user
    /\ \E f \in FragIds : f \notin DOMAIN frags

\* C27: when a give-a-frag request resumes from lookupUser with a recipient
\* that was not found, is not allowed or is the giver, it can only be
\* answered with INVALID_RECIPIENT, with the ledger (frags, mothers,
\* journals, fans) unchanged and no part of the request left to run, and
\* giveAFrag is not called for it.
C27_BadRecipientRejected ==
    running.pc = "idle" =>
        \A r \in 1..MaxInflight, ownerId \in Users :
            \A recipient \in LookupUser(ownerId) :
                (/\ inflight[r].pc = "lookup"
                 /\ \/ ~recipient.found
                    \/ ~recipient.allowed
                    \/ recipient.id = inflight[r].user) =>
                    /\ ENABLED (/\ PostGiveAFrag_BadRecipient(r, ownerId, recipient)
                                /\ reply'.code = "INVALID_RECIPIENT"
                                /\ UNCHANGED Ledger
                                /\ running'.pc = "idle"
                                /\ inflight'[r] = Free)
                    /\ ~ENABLED (/\ PostGiveAFrag_BadRecipient(r, ownerId, recipient)
                                 /\ ~(/\ reply'.code = "INVALID_RECIPIENT"
                                      /\ UNCHANGED Ledger
                                      /\ running'.pc = "idle"
                                      /\ inflight'[r] = Free))
                    /\ ~ENABLED PostGiveAFrag_Give(r, ownerId, recipient)

\* A give-a-frag request has been answered with INVALID_RECIPIENT and
\* nothing of it is left, in a ledger that an earlier give has split.
C27_Witness ==
    /\ reply.code = "INVALID_RECIPIENT"
    /\ running.pc = "idle"
    /\ \A r \in 1..MaxInflight : inflight[r] = Free
    /\ \E f \in DOMAIN frags : frags[f].fragOf # NULL

\* The frag row of a reply is private and not the caller's.
PrivateOfAnother(row, user) ==
    row.rules = "private" /\ row.ownerId # user

C29_JournalsAppendOnly ==
    [][/\ Len(journals') >= Len(journals)
       /\ \A j \in DOMAIN journals : journals'[j] = journals[j]
       /\ (running.pc = "idle" /\ running'.pc = "journalPicture") =>
             /\ Len(journals') = Len(journals) + 1
             /\ running'.journal = journals'[Len(journals')]
             /\ running'.journal.fragId = running'.fragId
       /\ (running.pc = "journalPicture" /\ running'.pc = "idle") =>
             /\ reply'.journal = running.journal
             /\ journals' = journals]_vars

\* The journal route has replied with the row it added, which is the last
\* of the journals and of a frag that had rows before.
C29_Witness ==
    /\ reply.code = "ok"
    /\ "journal" \in DOMAIN reply
    /\ Len(journals) > 3
    /\ reply.journal = journals[Len(journals)]
    /\ \E j \in 1..(Len(journals) - 1) : journals[j].fragId = reply.journal.fragId

C31_NoChildOfDeadSource ==
    [][\A r \in 1..MaxInflight :
          (/\ Resumed(r)
           /\ frags[inflight[r].fragOf].isAlive = 0)
             => Len(frags') = Len(frags)]_vars

\* ------------------------------------------- callers of the database module

\* A caller of db.giveAFrag(userId, values) other than the give-a-frag
\* route: userId and values are whatever the caller passes; the reply
\* records the call and whether the transaction committed.
Call_giveAFrag(userId, ownerId, fragOf, motherId, transfer) ==
    /\ running.pc = "idle"
    /\ Len(mothers) + Len(frags) < MaxRows
    /\ LET values == [fragOf |-> fragOf, ownerId |-> ownerId,
                      transfer |-> transfer, motherId |-> motherId,
                      fragsAvailable |-> 0]
           g == giveAFrag(frags, userId, values)
       IN  /\ frags' = g.frags
           /\ hist' = IF ~g.ok THEN hist
                      ELSE IF values.transfer
                      THEN HistTransfer(hist, frags, values)
                      ELSE HistSplit(hist, frags, values)
           /\ reply' = [code |-> "giveAFrag", userId |-> userId,
                        values |-> values, ok |-> g.ok]
    /\ UNCHANGED <<shares, mothers, journals, fans, inflight, running>>

\* Items added through the route, and db.giveAFrag called with any giver.
NextDb ==
    \/ \E fragsAvailable \in {0, 1} :
          AddNewItem_InsertItem(FirstTime, FirstName, FirstType, fragsAvailable)
    \/ AddNewItem_Journal
    \/ \E userId \in Users, ownerId \in Users, fragOf \in DOMAIN frags,
          motherId \in DOMAIN mothers, transfer \in BOOLEAN :
          Call_giveAFrag(userId, ownerId, fragOf, motherId, transfer)

SpecDb == Init /\ [][NextDb]_vars

C33_DeadHasNoCounter ==
    \A f \in DOMAIN frags :
        frags[f].isAlive = 0 => frags[f].fragsAvailable = 0

\* A frag that died with a positive counter while a give-a-frag of it was
\* waiting for its recipient, and the give has written since.
C33_Witness ==
    \E f \in DOMAIN frags :
        /\ frags[f].isAlive = 0
        /\ frags[f].status = NULLSTATUS
        /\ hist.base[f] = MaxAvail
        /\ hist.splits[f] = 1
        /\ running.pc = "giveJournalRecipient"
        /\ running.fragOf = f
        /\ ~running.transfer

\* C34: death is absorbing and no row is deleted: a dead frag stays dead,
\* a status of 'transferred' stays 'transferred', and every mother and
\* every frag of a state is still there in the next.
C34_DeathIsAbsorbing ==
    [][/\ Len(mothers') >= Len(mothers)
       /\ Len(frags') >= Len(frags)
       /\ \A f \in DOMAIN frags :
             /\ frags[f].isAlive = 0 => frags'[f].isAlive = 0
             /\ frags[f].status = "transferred"
                   => frags'[f].status = "transferred"]_vars

\* A second give-a-frag of a frag that is already dead and 'transferred'
\* has just written: the frag has two children.
C34_Witness ==
    /\ running.pc = "giveJournalRecipient"
    /\ frags[running.fragOf].isAlive = 0
    /\ frags[running.fragOf].status = "transferred"
    /\ Cardinality(Children(running.fragOf)) = 2

\* C35: no step changes the motherId, fragOf or ownerId of a frag that
\* already exists: a transfer kills the source and inserts a child for the
\* new owner, it does not hand the source over.
C35_IdentityImmutable ==
    [][\A f \in DOMAIN frags :
          /\ f \in DOMAIN frags'
          /\ frags'[f].motherId = frags[f].motherId
          /\ frags'[f].fragOf = frags[f].fragOf
          /\ frags'[f].ownerId = frags[f].ownerId]_vars

\* A transfer of a frag that is itself a child has just been written: the
\* source is dead and still its giver's, under its own parent.
C35_Witness ==
    /\ running.pc = "giveJournalRecipient"
    /\ running.transfer
    /\ frags[running.fragOf].status = "transferred"
    /\ frags[running.fragOf].ownerId = running.user
    /\ frags[running.fragOf].fragOf # NULL
    /\ frags[running.fragId].ownerId = running.recipient

\* C36: at every point of an import replay every entry of fragMap maps a
\* user id to a frag of the imported mother that is alive and owned by
\* that user.
C36_FragMapHoldsLiveOwned ==
    "fragMap" \in DOMAIN running =>
        \A h \in Holders :
            running.fragMap[h] # 0 =>
                /\ running.fragMap[h] \in DOMAIN frags
                /\ frags[running.fragMap[h]].motherId = running.motherId
                /\ frags[running.fragMap[h]].isAlive = 1
                /\ frags[running.fragMap[h]].ownerId = h

\* The replay is between two entries with two users in the map, after a
\* frag of the imported mother has been retired.
C36_Witness ==
    /\ AtEntry
    /\ Cardinality(Mapped(running.fragMap)) = 2
    /\ \E f \in FragsOf(running.motherId) : frags[f].isAlive = 0

\* C37: when an import replay is through, the live frags of the imported
\* mother are exactly the frags fragMap holds, also when a user received
\* a frag more than once or gave to themself.
C37_MapTracksEveryLiveFrag ==
    Replayed =>
        {f \in FragsOf(running.motherId) : frags[f].isAlive = 1}
            = {running.fragMap[h] : h \in Mapped(running.fragMap)}

\* C38: no child frag is owned by the owner of its parent: give-a-frag
\* rejects a recipient who is the giver, and import replay creates no
\* child for an entry whose toId is its fromId.
C38_NoChildOfOwnOwner ==
    \A f \in DOMAIN frags :
        frags[f].fragOf # NULL =>
            frags[f].ownerId # frags[frags[f].fragOf].ownerId

\* C39: in every reachable state a 'private' mother has exactly one frag,
\* its root, whatever motherId a give-a-frag request body carries.
C39_PrivateMotherHasOnlyItsRoot ==
    \A m \in DOMAIN mothers :
        mothers[m].rules = "private" =>
            /\ Cardinality(FragsOf(m)) = 1
            /\ FragsOf(m) = Roots(m)

\* ------------------------------------------- edits and the collection order

\* From the ledger of InitKids: clients that add 'dbtc' and 'private'
\* items and edit items and frags, and clients that page through the
\* collection.
NextEditOrder ==
    \/ \E timestamp \in 1..MaxTime :
          AddNewItem_InsertItem(timestamp, FirstName, FirstType, 0)
    \/ AddNewItem_Journal
    \/ \E user \in Users, fragId \in FragIds :
          Update_Mother(user, fragId)
    \/ Update_Frag
    \/ Update_Journal
    \/ \E user \in Users, page \in Pages :
          Collection_Get(user, "dbtc", page, NULL_FILTERS)

SpecEditOrder == InitKids /\ [][NextEditOrder]_vars

\* C40: the timestamp the collection is ordered by is a creation time: an
\* edit through the update route leaves every mother's timestamp as it
\* was, so every page of selectCollectionPaged names the same mothers in
\* the same order after the edit as before it.
C40_EditKeepsOrder ==
    [][(running.pc = "idle" /\ running'.pc = "updateFrag") =>
          /\ \A m \in DOMAIN mothers :
                mothers'[m].timestamp = mothers[m].timestamp
          /\ \A page \in Pages :
                {[i \in DOMAIN rows |-> rows[i].motherId] :
                    rows \in selectCollectionPaged(mothers', frags', fans', 1,
                                                   "dbtc", page, NULL_FILTERS)}
                = {[i \in DOMAIN rows |-> rows[i].motherId] :
                    rows \in selectCollectionPaged(mothers, frags, fans, 1,
                                                   "dbtc", page, NULL_FILTERS)}]_vars
====
